---- MODULE Spec2Model ----
(***************************************************************************)
(* The analysis pipeline of the stablecoin conversion analyser:            *)
(*   Event Normalizer       parseConversionEvents / analyzeTransfers       *)
(*   Pattern Detector       detectFrequencyPattern,                        *)
(*                          calculateAverageDaysBetween                    *)
(*   Discipline Simulator   simulateDisciplineRule                         *)
(*   Cost Calculator        calculateCostSavings, getCostBreakdown         *)
(*   Discipline Scorer      calculateDisciplineScore                       *)
(*   Recommendation         generateRecommendation                         *)
(*                                                                         *)
(* Modelling conventions.                                                  *)
(*  - A timestamp is an integer number of ticks since 2024-01-01T00:00Z,   *)
(*    TicksPerDay ticks to the day (the code counts milliseconds).  Dates  *)
(*    are read in UTC (the code's getDate/setDate use the host's zone).    *)
(*  - JavaScript numbers are modelled as exact rationals: a value is       *)
(*    either an integer or a record [num, den] in lowest terms, den > 0.   *)
(*    Every threshold test of the code is the same test on rationals.      *)
(*  - Exchange rates are integers in units of 1/RateScale.                  *)
(***************************************************************************)
EXTENDS Integers, Sequences, FiniteSets, TLC

VARIABLES
    pc,             \* which function has been applied to the inputs
    transfers,      \* TransferData[] given to the Event Normalizer
    walletAddress,  \* the tracked wallet address
    conversions,    \* ConversionEvent[] given to (or produced for) the stages
    balance,        \* currentStablecoinBalance of the last call
    currency,       \* targetCurrency of the last call
    analysis,       \* AnalysisResult of analyzeTransfers
    frequency,      \* result of detectFrequencyPattern
    averageDays,    \* result of calculateAverageDaysBetween
    simulation,     \* SimulationResult of simulateDisciplineRule
    actualRates,    \* rates sampled for the actual events (costCalculator.ts:105-109)
    costResult,     \* CostResult
    scoreResult,    \* ScoreResult
    recommendation, \* RecommendationResult.recommendation
    rateSamples,    \* how many times the last call evaluated the rate model
    history,        \* the calls made so far: function, arguments and result
    breakdown       \* result of getCostBreakdown

vars == <<pc, transfers, walletAddress, conversions, balance, currency, analysis,
          frequency, averageDays, simulation, actualRates, costResult, scoreResult,
          recommendation, rateSamples, history, breakdown>>

-----------------------------------------------------------------------------
(* Bounds of the model *)

\* events in a list of SpecOrder
MaxOrderEvents == 3

\* ticks per day: the resolution of time of day
TicksPerDay == 2
\* longest event list of the stage specification Spec
MaxEvents == 3
\* longest event list of the Pattern Detector specification
MaxPatternEvents == 5
\* longest event list of the Discipline Scorer specification
MaxScoreEvents == 3
\* longest event list of the Cost Calculator specification
MaxCostEvents == 2
\* longest transfer list of the Event Normalizer specification
MaxTransfers == 2

-----------------------------------------------------------------------------
(* Exact rational arithmetic *)

Abs(x) == IF x < 0 THEN -x ELSE x

Min(a, b) == IF a <= b THEN a ELSE b

Max(a, b) == IF a >= b THEN a ELSE b

RECURSIVE Gcd(_, _)
Gcd(a, b) == IF b = 0 THEN a ELSE Gcd(b, a % b)

\* the number n/d: for d # 0 the rational in lowest terms with a positive
\* denominator; 0/0 is NaN, num 0 over den 0, and n/0 is +Infinity or
\* -Infinity, num 1 or -1 over den 0
Rat(n, d) ==
    IF d = 0
    THEN [num |-> IF n > 0 THEN 1 ELSE IF n < 0 THEN -1 ELSE 0, den |-> 0]
    ELSE
        LET g == Gcd(Abs(n), Abs(d))
            s == IF d < 0 THEN -1 ELSE 1
        IN  [num |-> s * (n \div g), den |-> s * (d \div g)]

RInt(n) == [num |-> n, den |-> 1]

\* a and b over their least common denominator: <<num of a, num of b, den>>
Common(a, b) ==
    LET g == Gcd(a.den, b.den)
    IN  <<a.num * (b.den \div g), b.num * (a.den \div g), (a.den \div g) * b.den>>

RAdd(a, b) == LET c == Common(a, b) IN Rat(c[1] + c[2], c[3])

RSub(a, b) == LET c == Common(a, b) IN Rat(c[1] - c[2], c[3])

RMul(a, b) ==
    LET g1 == Gcd(Abs(a.num), b.den)
        g2 == Gcd(Abs(b.num), a.den)
    IN  Rat((a.num \div g1) * (b.num \div g2), (a.den \div g2) * (b.den \div g1))

RAbs(a) == [num |-> Abs(a.num), den |-> a.den]

RLt(a, b) == LET c == Common(a, b) IN c[1] < c[2]

RLe(a, b) == LET c == Common(a, b) IN c[1] <= c[2]

RMin(a, b) == IF RLe(a, b) THEN a ELSE b

RMax(a, b) == IF RLe(b, a) THEN a ELSE b

RECURSIVE SumSeq(_)
SumSeq(s) == IF s = <<>> THEN 0 ELSE Head(s) + SumSeq(Tail(s))

RECURSIVE SumSquares(_)
SumSquares(s) == IF s = <<>> THEN 0 ELSE Head(s) * Head(s) + SumSquares(Tail(s))

\* Math.floor in the place of Math.round
MathFloor(a) == a.num \div a.den

\* Math.round: the nearest integer, halves rounded towards +Infinity
MathRound(a) == (2 * a.num + a.den) \div (2 * a.den)

-----------------------------------------------------------------------------
(* Dates: new Date(timestamp), getDate, setDate, setMonth *)

BaseYear == 2024

IsLeapYear(y) == (y % 4 = 0 /\ y % 100 # 0) \/ y % 400 = 0

\* m is JavaScript's month, 0..11
DaysInMonth(y, m) ==
    IF m = 1 THEN (IF IsLeapYear(y) THEN 29 ELSE 28)
    ELSE IF m \in {3, 5, 8, 10} THEN 30 ELSE 31

RECURSIVE YmdFrom(_, _, _)
YmdFrom(y, m, r) ==
    IF r < DaysInMonth(y, m) THEN [year |-> y, month |-> m, date |-> r + 1]
    ELSE IF m = 11 THEN YmdFrom(y + 1, 0, r - DaysInMonth(y, m))
    ELSE YmdFrom(y, m + 1, r - DaysInMonth(y, m))

RECURSIVE DaysBeforeMonth(_, _)
DaysBeforeMonth(y, m) ==
    IF m = 0 THEN 0 ELSE DaysBeforeMonth(y, m - 1) + DaysInMonth(y, m - 1)

RECURSIVE DaysBeforeYear(_)
DaysBeforeYear(y) ==
    IF y = BaseYear THEN 0
    ELSE DaysBeforeYear(y - 1) + (IF IsLeapYear(y - 1) THEN 366 ELSE 365)

DayIndex(t) == t \div TicksPerDay

TimeOfDay(t) == t % TicksPerDay

\* the calendar of BaseYear and the year after it, computed once
Calendar == [d \in 0..(DaysBeforeYear(BaseYear + 2) - 1) |-> YmdFrom(BaseYear, 0, d)]

Ymd(t) == Calendar[DayIndex(t)]

\* Date.getDate(): the day of the month, 1..31
getDate(t) == Ymd(t).date

\* the month counted from January of BaseYear
MonthNumber(t) == (Ymd(t).year - BaseYear) * 12 + Ymd(t).month

\* the timestamp of year y, month m (0..11, or 12 for next January), day d
\* (days past the month's end run over into the next month, as Date does)
MakeDate(y, m, d, tod) ==
    LET yy == IF m > 11 THEN y + 1 ELSE y
        mm == IF m > 11 THEN m - 12 ELSE m
    IN  (DaysBeforeYear(yy) + DaysBeforeMonth(yy, mm) + d - 1) * TicksPerDay + tod

\* Date.setDate(d)
setDate(t, d) == MakeDate(Ymd(t).year, Ymd(t).month, d, TimeOfDay(t))

\* Date.setMonth(getMonth() + 1)
addMonth(t) == MakeDate(Ymd(t).year, Ymd(t).month + 1, Ymd(t).date, TimeOfDay(t))

\* the tick of a calendar date of BaseYear (month 1..12), at time of day tod
At(month, day, tod) == MakeDate(BaseYear, month - 1, day, tod)

-----------------------------------------------------------------------------
(* ConversionEvent lists *)

Timestamps(convs) == [i \in 1..Len(convs) |-> convs[i].timestamp]

Amounts(convs) == [i \in 1..Len(convs) |-> convs[i].amount]

\* (curr.getTime() - prev.getTime()) for i = 1 .. length-1, in ticks
GapsBetween(convs) ==
    [i \in 1..(Len(convs) - 1) |-> convs[i + 1].timestamp - convs[i].timestamp]

IsAscending(convs) ==
    \A i \in 1..(Len(convs) - 1) : convs[i].timestamp <= convs[i + 1].timestamp

\* Sqrt(v) / m < p / q as JavaScript evaluates it for v >= 0, p, q > 0:
\* 0/0 is NaN and x/0 is Infinity, neither is below anything, and a negative
\* mean makes the quotient negative (or -0)
CvBelow(v, m, p, q) ==
    IF m > 0 THEN q * q * v < p * p * m * m
    ELSE m < 0

-----------------------------------------------------------------------------
(* Pattern Detector *)

\* the coefficient of variation compared as a percentage: cv < 30
IsRegular_Percent(varK2, total) == CvBelow(varK2, total, 30, 1)

\* cv < 0.3 for cv = stdDev / avgDays, given variance * k^2 and the sum of
\* the k gaps
IsRegular(varK2, total) == CvBelow(varK2, total, 3, 10)

detectFrequencyPattern(convs) ==
    IF Len(convs) < 2 THEN "insufficient-data"
    ELSE
        LET daysBetween == GapsBetween(convs)
            k == Len(daysBetween)
            total == SumSeq(daysBetween)
            \* avgDays = total / (k * TicksPerDay); variance * k^2 in ticks^2
            varK2 == k * SumSquares(daysBetween) - total * total
            AvgDaysAtMost(d) == total <= d * k * TicksPerDay
        IN  IF k = 0 THEN "insufficient-data"
            ELSE IF IsRegular(varK2, total) /\ AvgDaysAtMost(2) THEN "daily"
            ELSE IF IsRegular(varK2, total) /\ AvgDaysAtMost(9) THEN "weekly"
            ELSE IF IsRegular(varK2, total) /\ AvgDaysAtMost(16) THEN "bi-weekly"
            ELSE IF IsRegular(varK2, total) /\ AvgDaysAtMost(35) THEN "monthly"
            ELSE "irregular"

Null == [null |-> TRUE]

calculateAverageDaysBetween(convs) ==
    IF Len(convs) < 2 THEN Null
    ELSE Rat(SumSeq(GapsBetween(convs)), (Len(convs) - 1) * TicksPerDay)

-----------------------------------------------------------------------------
(* Day-of-month counting shared by the Simulator and the Scorer *)

\* dayCounts[day]: the number of events on that day of the month
DayCount(convs, day) == Cardinality({i \in 1..Len(convs) : getDate(convs[i].timestamp) = day})

\* the keys in the order of their insertion: the day of each event at its
\* first occurrence
RECURSIVE InsertionKeysFrom(_, _, _)
InsertionKeysFrom(convs, i, seen) ==
    IF i > Len(convs) THEN <<>>
    ELSE LET day == getDate(convs[i].timestamp)
         IN  IF day \in seen THEN InsertionKeysFrom(convs, i + 1, seen)
             ELSE <<day>> \o InsertionKeysFrom(convs, i + 1, seen \cup {day})

InsertionOrderKeys(convs) == InsertionKeysFrom(convs, 1, {})

\* Object.entries(dayCounts): integer-like keys are enumerated in ascending
\* numeric order, whatever the order of insertion
RECURSIVE AscendingKeysFrom(_, _)
AscendingKeysFrom(convs, day) ==
    IF day > 31 THEN <<>>
    ELSE IF DayCount(convs, day) > 0
         THEN <<day>> \o AscendingKeysFrom(convs, day + 1)
         ELSE AscendingKeysFrom(convs, day + 1)

ObjectEntries(convs) == AscendingKeysFrom(convs, 1)

\* the loop "if (count > best.count) best = {day, count}" over the entries
RECURSIVE MostCommonFold(_, _, _)
MostCommonFold(convs, keys, best) ==
    IF keys = <<>> THEN best
    ELSE LET day == Head(keys)
             count == DayCount(convs, day)
         IN  MostCommonFold(convs, Tail(keys),
                 IF count > best.count THEN [day |-> day, count |-> count] ELSE best)

-----------------------------------------------------------------------------
(* Discipline Scorer *)

\* the average taken over the events, not over the gaps between them
calculateFrequencyScore_PerEvent(convs) ==
    IF Len(convs) < 2 THEN 0
    ELSE
        LET n == Len(convs)
            totalDays == SumSeq(GapsBetween(convs))
            devN == Abs(totalDays - 30 * n * TicksPerDay)
            DeviationAtMost(d) == devN <= d * n * TicksPerDay
        IN  IF DeviationAtMost(2) THEN 100
            ELSE IF DeviationAtMost(5) THEN 85
            ELSE IF DeviationAtMost(10) THEN 70
            ELSE IF DeviationAtMost(15) THEN 50
            ELSE IF DeviationAtMost(20) THEN 30
            ELSE 15

\* the score with "<" in the place of "<=" at every threshold
calculateFrequencyScore_Strict(convs) ==
    IF Len(convs) < 2 THEN 0
    ELSE
        LET k == Len(convs) - 1
            totalDays == SumSeq(GapsBetween(convs))
            devK == Abs(totalDays - 30 * k * TicksPerDay)
            DeviationBelow(d) == devK < d * k * TicksPerDay
        IN  IF DeviationBelow(2) THEN 100
            ELSE IF DeviationBelow(5) THEN 85
            ELSE IF DeviationBelow(10) THEN 70
            ELSE IF DeviationBelow(15) THEN 50
            ELSE IF DeviationBelow(20) THEN 30
            ELSE 15

\* the score by the bands of the function's comment: 100 within 2 days of
\* 30, 75 for 25 to 35 days, 50 for 20 to 40, 25 for 15 to 45, else 0
calculateFrequencyScore_Documented(convs) ==
    IF Len(convs) < 2 THEN 0
    ELSE
        LET k == Len(convs) - 1
            totalDays == SumSeq(GapsBetween(convs))
            devK == Abs(totalDays - 30 * k * TicksPerDay)
            DeviationAtMost(d) == devK <= d * k * TicksPerDay
        IN  IF DeviationAtMost(2) THEN 100
            ELSE IF DeviationAtMost(5) THEN 75
            ELSE IF DeviationAtMost(10) THEN 50
            ELSE IF DeviationAtMost(15) THEN 25
            ELSE 0

calculateFrequencyScore(convs) ==
    IF Len(convs) < 2 THEN 0
    ELSE
        LET k == Len(convs) - 1
            totalDays == SumSeq(GapsBetween(convs))
            \* deviation = |totalDays / (k * TicksPerDay) - 30|, times k * TicksPerDay
            devK == Abs(totalDays - 30 * k * TicksPerDay)
            DeviationAtMost(d) == devK <= d * k * TicksPerDay
        IN  IF DeviationAtMost(2) THEN 100
            ELSE IF DeviationAtMost(5) THEN 85
            ELSE IF DeviationAtMost(10) THEN 70
            ELSE IF DeviationAtMost(15) THEN 50
            ELSE IF DeviationAtMost(20) THEN 30
            ELSE 15

\* the score without the return for a mean of 0: the comparisons of a
\* not-a-number cv all fail
calculateConsistencyScore_NoMeanGuard(convs) ==
    IF Len(convs) < 2 THEN 0
    ELSE
        LET amounts == Amounts(convs)
            n == Len(amounts)
            sum == SumSeq(amounts)
            varN2 == n * SumSquares(amounts) - sum * sum
        IN  IF CvBelow(varN2, sum, 1, 10) THEN 100
            ELSE IF CvBelow(varN2, sum, 1, 4) THEN 75
            ELSE IF CvBelow(varN2, sum, 2, 5) THEN 50
            ELSE IF CvBelow(varN2, sum, 3, 5) THEN 25
            ELSE 10

\* the score with the sample deviation, the squares divided by n - 1, in the
\* place of the population deviation
calculateConsistencyScore_SampleDeviation(convs) ==
    IF Len(convs) < 2 THEN 0
    ELSE
        LET amounts == Amounts(convs)
            n == Len(amounts)
            sum == SumSeq(amounts)
            varN2 == n * SumSquares(amounts) - sum * sum
            v == varN2 * n * (n - 1)
            m == sum * (n - 1)
        IN  IF sum = 0 THEN 0
            ELSE IF CvBelow(v, m, 1, 10) THEN 100
            ELSE IF CvBelow(v, m, 1, 4) THEN 75
            ELSE IF CvBelow(v, m, 2, 5) THEN 50
            ELSE IF CvBelow(v, m, 3, 5) THEN 25
            ELSE 10

calculateConsistencyScore(convs) ==
    IF Len(convs) < 2 THEN 0
    ELSE
        LET amounts == Amounts(convs)
            n == Len(amounts)
            sum == SumSeq(amounts)
            \* mean = sum / n; variance * n^2; cv against 0.10, 0.25, 0.40, 0.60
            varN2 == n * SumSquares(amounts) - sum * sum
        IN  IF sum = 0 THEN 0
            ELSE IF CvBelow(varN2, sum, 1, 10) THEN 100
            ELSE IF CvBelow(varN2, sum, 1, 4) THEN 75
            ELSE IF CvBelow(varN2, sum, 2, 5) THEN 50
            ELSE IF CvBelow(varN2, sum, 3, 5) THEN 25
            ELSE 10

\* the timing score with the plain difference of the days, 1st and 31st
\* being 30 days apart
calculateTimingScore_NoWraparound(convs) ==
    IF Len(convs) < 2 THEN 0
    ELSE
        LET n == Len(convs)
            mostCommonDay ==
                MostCommonFold(convs, ObjectEntries(convs),
                    [day |-> getDate(convs[1].timestamp), count |-> 0]).day
            onTarget ==
                Cardinality({i \in 1..n :
                    Abs(getDate(convs[i].timestamp) - mostCommonDay) <= 3})
            AtLeast(p, q) == q * onTarget >= p * n
        IN  IF AtLeast(9, 10) THEN 100
            ELSE IF AtLeast(3, 4) THEN 80
            ELSE IF AtLeast(3, 5) THEN 60
            ELSE IF AtLeast(2, 5) THEN 40
            ELSE IF AtLeast(1, 4) THEN 20
            ELSE 10

tolerance == 3

calculateTimingScore(convs) ==
    IF Len(convs) < 2 THEN 0
    ELSE
        LET n == Len(convs)
            mostCommonDay ==
                MostCommonFold(convs, ObjectEntries(convs),
                    [day |-> getDate(convs[1].timestamp), count |-> 0]).day
            normalizedDiff(i) ==
                LET diff == Abs(getDate(convs[i].timestamp) - mostCommonDay)
                IN  Min(diff, 31 - diff)
            onTarget == Cardinality({i \in 1..n : normalizedDiff(i) <= tolerance})
            \* percentageOnTarget = onTarget / n against 0.9, 0.75, 0.6, 0.4, 0.25
            AtLeast(p, q) == q * onTarget >= p * n
        IN  IF AtLeast(9, 10) THEN 100
            ELSE IF AtLeast(3, 4) THEN 80
            ELSE IF AtLeast(3, 5) THEN 60
            ELSE IF AtLeast(2, 5) THEN 40
            ELSE IF AtLeast(1, 4) THEN 20
            ELSE 10

\* the sentence of one component: its band of the score
Band(score) ==
    IF score >= 80 THEN "excellent"
    ELSE IF score >= 50 THEN "reasonable"
    ELSE IF score >= 25 THEN "irregular"
    ELSE "erratic"

generateExplanation(frequencyScore, consistencyScore, timingScore) ==
    <<Band(frequencyScore), Band(consistencyScore), Band(timingScore)>>

InsufficientExplanation == <<"insufficient-data">>

\* frequencyScore * 0.4 + consistencyScore * 0.3 + timingScore * 0.3
WeightedSum(f, c, t) == Rat(4 * f + 3 * c + 3 * t, 10)

\* the scorer without its guard for fewer than 2 events
calculateDisciplineScore_Unguarded(convs) ==
    LET frequencyScore == calculateFrequencyScore(convs)
        consistencyScore == calculateConsistencyScore(convs)
        timingScore == calculateTimingScore(convs)
    IN  [score |-> MathRound(WeightedSum(frequencyScore, consistencyScore, timingScore)),
         explanation |-> generateExplanation(frequencyScore, consistencyScore, timingScore),
         components |-> [frequencyScore |-> frequencyScore,
                         consistencyScore |-> consistencyScore,
                         timingScore |-> timingScore]]

calculateDisciplineScore(convs) ==
    IF Len(convs) < 2
    THEN [score |-> 0,
          explanation |-> InsufficientExplanation,
          components |-> [frequencyScore |-> 0, consistencyScore |-> 0, timingScore |-> 0]]
    ELSE
        LET frequencyScore == calculateFrequencyScore(convs)
            consistencyScore == calculateConsistencyScore(convs)
            timingScore == calculateTimingScore(convs)
        IN  [score |-> MathRound(WeightedSum(frequencyScore, consistencyScore, timingScore)),
             explanation |-> generateExplanation(frequencyScore, consistencyScore, timingScore),
             components |-> [frequencyScore |-> frequencyScore,
                             consistencyScore |-> consistencyScore,
                             timingScore |-> timingScore]]

-----------------------------------------------------------------------------
(* Synthetic exchange-rate model: getExchangeRateAtTimestamp and            *)
(* estimateExchangeRate are the same function.  A rate is an integer in     *)
(* units of 1/RateScale; the sinusoidal terms are rounded to that unit.     *)

RateScale == 10000

\* Math.sin(daysSinceBase * 0.1) * 0.002 for daysSinceBase = 0 .. 199
UsdWave == <<
    0, 2, 4, 6, 8, 10, 11, 13, 14, 16, 17, 18, 19, 19, 20, 20, 20, 20, 19, 19,
    18, 17, 16, 15, 14, 12, 10, 9, 7, 5, 3, 1, -1, -3, -5, -7, -9, -11, -12, -14,
    -15, -16, -17, -18, -19, -20, -20, -20, -20, -20, -19, -19, -18, -17, -15, -14, -13, -11, -9, -7,
    -6, -4, -2, 0, 2, 4, 6, 8, 10, 12, 13, 15, 16, 17, 18, 19, 19, 20, 20, 20,
    20, 19, 19, 18, 17, 16, 15, 13, 12, 10, 8, 6, 4, 2, 0, -2, -3, -5, -7, -9,
    -11, -13, -14, -15, -17, -18, -18, -19, -20, -20, -20, -20, -20, -19, -18, -18, -16, -15, -14, -12,
    -11, -9, -7, -5, -3, -1, 1, 3, 5, 7, 8, 10, 12, 13, 15, 16, 17, 18, 19, 19,
    20, 20, 20, 20, 19, 19, 18, 17, 16, 14, 13, 11, 10, 8, 6, 4, 2, 0, -2, -4,
    -6, -8, -9, -11, -13, -14, -16, -17, -18, -19, -19, -20, -20, -20, -20, -20, -19, -18, -17, -16,
    -15, -14, -12, -10, -9, -7, -5, -3, -1, 1, 3, 5, 7, 9, 10, 12, 14, 15, 16, 17 >>

\* Math.sin(daysSinceBase * 0.05) * 0.02 for daysSinceBase = 0 .. 199
EurWave == <<
    0, 10, 20, 30, 40, 49, 59, 69, 78, 87, 96, 105, 113, 121, 129, 136, 143, 150, 157, 163,
    168, 173, 178, 183, 186, 190, 193, 195, 197, 199, 199, 200, 200, 199, 198, 197, 195, 192, 189, 186,
    182, 177, 173, 167, 162, 156, 149, 142, 135, 128, 120, 112, 103, 94, 85, 76, 67, 57, 48, 38,
    28, 18, 8, -2, -12, -22, -32, -41, -51, -61, -70, -79, -89, -97, -106, -114, -122, -130, -138, -145,
    -151, -158, -164, -169, -174, -179, -183, -187, -190, -193, -196, -197, -199, -200, -200, -200, -199, -198, -196, -194,
    -192, -189, -185, -181, -177, -172, -166, -161, -155, -148, -141, -134, -126, -118, -110, -102, -93, -84, -75, -65,
    -56, -46, -36, -27, -17, -7, 3, 13, 23, 33, 43, 53, 62, 72, 81, 90, 99, 107, 116, 124,
    131, 139, 146, 152, 159, 165, 170, 175, 180, 184, 188, 191, 194, 196, 198, 199, 200, 200, 200, 199,
    198, 196, 194, 191, 188, 185, 180, 176, 171, 166, 160, 153, 147, 140, 133, 125, 117, 109, 100, 91,
    82, 73, 64, 54, 45, 35, 25, 15, 5, -5, -15, -25, -35, -45, -54, -64, -73, -83, -92, -100 >>

\* (Math.random() - 0.5) * 0.001 lies in [-0.0005, 0.0005)
JitterMin == -5

JitterMax == 4

\* the jitter of twice the magnitude: (Math.random() - 0.5) * 0.002
JitterChoices_Doubled == {2 * JitterMin, 2 * JitterMax + 1}

\* the outcomes of the jitter the model draws from
JitterChoices == {JitterMin, JitterMax}

toUpperCase(code) ==
    IF code = "eur" THEN "EUR" ELSE IF code = "usd" THEN "USD" ELSE code

getExchangeRateAtTimestamp(timestamp, targetCurrency, jitter) ==
    LET daysSinceBase == DayIndex(timestamp)
        usdRate == RateScale + UsdWave[daysSinceBase + 1] + jitter
        eurToUsd == (92 * RateScale) \div 100 + EurWave[daysSinceBase + 1]
        eurRate == (usdRate * eurToUsd) \div RateScale
    IN  IF toUpperCase(targetCurrency) = "EUR" THEN eurRate ELSE usdRate

estimateExchangeRate(timestamp, targetCurrency, jitter) ==
    getExchangeRateAtTimestamp(timestamp, targetCurrency, jitter)

\* the rate as a number
RateValue(rate) == Rat(rate, RateScale)

-----------------------------------------------------------------------------
(* Array.prototype.sort with the comparator a.time - b.time: a stable sort  *)

\* the sort left out
SortByTimestamp_Skipped(events) == events

RECURSIVE InsertByTimestamp(_, _)
InsertByTimestamp(sorted, e) ==
    IF sorted = <<>> THEN <<e>>
    ELSE IF Head(sorted).timestamp <= e.timestamp
         THEN <<Head(sorted)>> \o InsertByTimestamp(Tail(sorted), e)
         ELSE <<e>> \o sorted

RECURSIVE SortFrom(_, _)
SortFrom(sorted, rest) ==
    IF rest = <<>> THEN sorted
    ELSE SortFrom(InsertByTimestamp(sorted, Head(rest)), Tail(rest))

SortByTimestamp(events) == SortFrom(<<>>, events)

-----------------------------------------------------------------------------
(* Discipline Simulator *)

\* the percentage clamped from below only
calculateConversionPercentage_NoUpperClamp(convs, currentStablecoinBalance) ==
    IF Len(convs) = 0 \/ currentStablecoinBalance <= 0 THEN Rat(1, 2)
    ELSE RMax(Rat(1, 10),
              Rat(SumSeq(Amounts(convs)), Len(convs) * currentStablecoinBalance))

calculateConversionPercentage(convs, currentStablecoinBalance) ==
    IF Len(convs) = 0 \/ currentStablecoinBalance <= 0 THEN Rat(1, 2)
    ELSE
        LET totalConverted == SumSeq(Amounts(convs))
            \* averageConversion / currentStablecoinBalance
            percentage == Rat(totalConverted, Len(convs) * currentStablecoinBalance)
        IN  RMax(Rat(1, 10), RMin(Rat(9, 10), percentage))

determineTargetDayOfMonth(convs) ==
    IF Len(convs) = 0 THEN 1
    ELSE
        LET targetDay ==
                MostCommonFold(convs, ObjectEntries(convs), [day |-> 1, count |-> 0]).day
        IN  Max(1, Min(28, targetDay))

\* the loop with "<" in the place of "<="
RECURSIVE MonthlyDatesFrom_Strict(_, _)
MonthlyDatesFrom_Strict(currentDate, lastConversion) ==
    IF currentDate < lastConversion
    THEN <<currentDate>> \o MonthlyDatesFrom_Strict(addMonth(currentDate), lastConversion)
    ELSE <<>>

\* the loop advancing by two months
RECURSIVE MonthlyDatesFrom_EveryOtherMonth(_, _)
MonthlyDatesFrom_EveryOtherMonth(currentDate, lastConversion) ==
    IF currentDate <= lastConversion
    THEN <<currentDate>>
         \o MonthlyDatesFrom_EveryOtherMonth(addMonth(addMonth(currentDate)), lastConversion)
    ELSE <<>>

\* the loop "while (currentDate <= lastConversion)"
RECURSIVE MonthlyDatesFrom(_, _)
MonthlyDatesFrom(currentDate, lastConversion) ==
    IF currentDate <= lastConversion
    THEN <<currentDate>> \o MonthlyDatesFrom(addMonth(currentDate), lastConversion)
    ELSE <<>>

\* the dates from the target day of the first event's month on, without the
\* step to the next month when that day is before the first event
generateMonthlyConversionDates_FromFirstMonth(firstConversion, lastConversion, targetDayOfMonth) ==
    MonthlyDatesFrom(setDate(firstConversion, targetDayOfMonth), lastConversion)

generateMonthlyConversionDates(firstConversion, lastConversion, targetDayOfMonth) ==
    LET onTargetDay == setDate(firstConversion, targetDayOfMonth)
        currentDate ==
            IF onTargetDay < firstConversion THEN addMonth(onTargetDay) ELSE onTargetDay
    IN  MonthlyDatesFrom(currentDate, lastConversion)

\* the sort applied to the argument itself
ArgumentSortedInPlace(convs) == SortByTimestamp(convs)

\* the argument after simulateDisciplineRule: the sort is applied to the copy
\* [...conversions], the argument keeps its elements and their order
ArgumentAfterSimulation(convs) == convs

\* the plan made from the argument as it was passed, the sort left out
SimulationPlan_InputOrder(convs, currentStablecoinBalance) ==
    LET firstConversion == convs[1].timestamp
        lastConversion == convs[Len(convs)].timestamp
        targetDayOfMonth == determineTargetDayOfMonth(convs)
    IN  [conversionPercentage |->
             calculateConversionPercentage(convs, currentStablecoinBalance),
         targetDayOfMonth |-> targetDayOfMonth,
         monthlyDates |->
             generateMonthlyConversionDates(firstConversion, lastConversion, targetDayOfMonth)]

\* the parameters and the schedule of the simulation, before any rate is sampled
SimulationPlan(convs, currentStablecoinBalance) ==
    LET sortedConversions == SortByTimestamp(convs)
        firstConversion == sortedConversions[1].timestamp
        lastConversion == sortedConversions[Len(sortedConversions)].timestamp
        conversionPercentage ==
            calculateConversionPercentage(sortedConversions, currentStablecoinBalance)
        targetDayOfMonth == determineTargetDayOfMonth(sortedConversions)
    IN  [conversionPercentage |-> conversionPercentage,
         targetDayOfMonth |-> targetDayOfMonth,
         monthlyDates |->
             generateMonthlyConversionDates(firstConversion, lastConversion, targetDayOfMonth)]

\* the number of rates simulateDisciplineRule samples
SimulatedCount(convs, currentStablecoinBalance) ==
    IF Len(convs) < 2 THEN 0
    ELSE Len(SimulationPlan(convs, currentStablecoinBalance).monthlyDates)

\* an empty simulation with the defaults of the parameter functions: 50% and
\* the 1st of the month
EmptySimulation_Defaults ==
    [simulatedConversions |-> <<>>,
     conversionPercentage |-> Rat(1, 2),
     targetDayOfMonth |-> 1,
     totalSimulatedAmount |-> RInt(0),
     averageSimulatedAmount |-> RInt(0)]

\* the result for fewer than 2 conversions
EmptySimulation ==
    [simulatedConversions |-> <<>>,
     conversionPercentage |-> RInt(0),
     targetDayOfMonth |-> 1,
     totalSimulatedAmount |-> RInt(0),
     averageSimulatedAmount |-> RInt(0)]

\* the simulation with each amount taken at its price
simulateDisciplineRule_AmountAtRate(convs, currentStablecoinBalance, targetCurrency, jitters) ==
    IF Len(convs) < 2
    THEN EmptySimulation
    ELSE
        LET plan == SimulationPlan(convs, currentStablecoinBalance)
            monthlyDates == plan.monthlyDates
            price(i) == getExchangeRateAtTimestamp(monthlyDates[i], targetCurrency, jitters[i])
            amountToConvert(i) ==
                RMul(RMul(RInt(currentStablecoinBalance), plan.conversionPercentage),
                     RateValue(price(i)))
        IN  [simulatedConversions |->
                 [i \in 1..Len(monthlyDates) |->
                     [timestamp |-> monthlyDates[i],
                      amount |-> amountToConvert(i),
                      priceAtConversion |-> price(i),
                      convertedTo |-> targetCurrency]],
             conversionPercentage |-> plan.conversionPercentage,
             targetDayOfMonth |-> plan.targetDayOfMonth,
             totalSimulatedAmount |->
                 RMul(RInt(Len(monthlyDates)),
                      RMul(RInt(currentStablecoinBalance), plan.conversionPercentage)),
             averageSimulatedAmount |->
                 RMul(RInt(currentStablecoinBalance), plan.conversionPercentage)]

\* what is left of a balance before the i-th conversion when each conversion
\* takes its percentage out of it
RECURSIVE RemainingBalance(_, _, _)
RemainingBalance(startBalance, percentage, i) ==
    IF i = 1 THEN startBalance
    ELSE RMul(RemainingBalance(startBalance, percentage, i - 1),
              RSub(RInt(1), percentage))

\* the simulation with each conversion taken out of the balance the earlier
\* ones left
simulateDisciplineRule_Depleting(convs, currentStablecoinBalance, targetCurrency, jitters) ==
    IF Len(convs) < 2
    THEN EmptySimulation
    ELSE
        LET plan == SimulationPlan(convs, currentStablecoinBalance)
            monthlyDates == plan.monthlyDates
            amountToConvert(i) ==
                RMul(RemainingBalance(RInt(currentStablecoinBalance),
                                      plan.conversionPercentage, i),
                     plan.conversionPercentage)
            amounts == [i \in 1..Len(monthlyDates) |-> amountToConvert(i)]
            taken ==
                RSub(RInt(currentStablecoinBalance),
                     RemainingBalance(RInt(currentStablecoinBalance),
                                      plan.conversionPercentage, Len(monthlyDates) + 1))
        IN  [simulatedConversions |->
                 [i \in 1..Len(monthlyDates) |->
                     [timestamp |-> monthlyDates[i],
                      amount |-> amounts[i],
                      priceAtConversion |->
                          getExchangeRateAtTimestamp(monthlyDates[i], targetCurrency, jitters[i]),
                      convertedTo |-> targetCurrency]],
             conversionPercentage |-> plan.conversionPercentage,
             targetDayOfMonth |-> plan.targetDayOfMonth,
             totalSimulatedAmount |-> taken,
             averageSimulatedAmount |->
                 IF Len(monthlyDates) > 0
                 THEN RMul(taken, Rat(1, Len(monthlyDates)))
                 ELSE RInt(0)]

\* jitters[i] is the outcome of Math.random for the i-th simulated conversion
simulateDisciplineRule(convs, currentStablecoinBalance, targetCurrency, jitters) ==
    IF Len(convs) < 2
    THEN EmptySimulation
    ELSE
        LET plan == SimulationPlan(convs, currentStablecoinBalance)
            monthlyDates == plan.monthlyDates
            amountToConvert ==
                RMul(RInt(currentStablecoinBalance), plan.conversionPercentage)
            totalSimulatedAmount == RMul(RInt(Len(monthlyDates)), amountToConvert)
        IN  [simulatedConversions |->
                 [i \in 1..Len(monthlyDates) |->
                     [timestamp |-> monthlyDates[i],
                      amount |-> amountToConvert,
                      priceAtConversion |->
                          getExchangeRateAtTimestamp(monthlyDates[i], targetCurrency, jitters[i]),
                      convertedTo |-> targetCurrency]],
             conversionPercentage |-> plan.conversionPercentage,
             targetDayOfMonth |-> plan.targetDayOfMonth,
             totalSimulatedAmount |-> totalSimulatedAmount,
             averageSimulatedAmount |->
                 IF Len(monthlyDates) > 0
                 THEN RMul(totalSimulatedAmount, Rat(1, Len(monthlyDates)))
                 ELSE RInt(0)]

-----------------------------------------------------------------------------
(* Cost/Savings Calculator *)

\* the mean of a list of rates, 1 for the empty list, as a number
AverageRate(rates) ==
    IF Len(rates) > 0 THEN Rat(SumSeq(rates), Len(rates) * RateScale) ELSE RInt(1)

\* "> 0" in the place of ">= 0"
CostType_Strict(delta) == IF delta.num > 0 THEN "saved" ELSE "lost"

\* costOrSavedAmount >= 0 ? 'saved' : 'lost'
CostType(delta) == IF delta.num >= 0 THEN "saved" ELSE "lost"

\* the rates sampled from one actual event on
ActualSampleCount_FromOne(actualConversions) ==
    IF Len(actualConversions) < 1 THEN 0 ELSE Len(actualConversions)

\* the number of rates each loop over the actual events samples: none when
\* the guard of lines 56-66 returns first
ActualSampleCount(actualConversions) ==
    IF Len(actualConversions) < 2 THEN 0 ELSE Len(actualConversions)

\* the rates of the loop of lines 105-109: jitters[i] is the outcome of
\* Math.random for actual event i
ActualRates(actualConversions, targetCurrency, jitters) ==
    [i \in 1..Len(jitters) |->
        estimateExchangeRate(actualConversions[i].timestamp, targetCurrency, jitters[i])]

\* simJitters are the outcomes of Math.random inside simulateDisciplineRule,
\* jitters those of the loop of lines 105-109; the rates sampled by the loop
\* of lines 76-80 only feed a total that is never returned
calculateCostSavings(actualConversions, currentStablecoinBalance, targetCurrency, simJitters, jitters) ==
    IF Len(actualConversions) < 2
    THEN [costOrSavedAmount |-> RInt(0),
          currency |-> targetCurrency,
          costType |-> "saved",
          actualCost |-> RInt(0),
          simulatedCost |-> RInt(0),
          conversionCount |-> Len(actualConversions)]
    ELSE
        LET simulated ==
                simulateDisciplineRule(actualConversions, currentStablecoinBalance,
                                       targetCurrency, simJitters)
            avgActualRate ==
                AverageRate(ActualRates(actualConversions, targetCurrency, jitters))
            avgSimulatedRate ==
                AverageRate([i \in 1..Len(simulated.simulatedConversions) |->
                                simulated.simulatedConversions[i].priceAtConversion])
            totalActualAmount == RInt(SumSeq(Amounts(actualConversions)))
            totalSimulatedAmount == simulated.totalSimulatedAmount
            actualCostBasis == RMul(totalActualAmount, RSub(RInt(1), avgActualRate))
            simulatedCostBasis == RMul(totalSimulatedAmount, RSub(RInt(1), avgSimulatedRate))
            costOrSavedAmount == RSub(simulatedCostBasis, actualCostBasis)
        IN  [costOrSavedAmount |-> RAbs(costOrSavedAmount),
             currency |-> targetCurrency,
             costType |-> CostType(costOrSavedAmount),
             actualCost |-> RAbs(actualCostBasis),
             simulatedCost |-> RAbs(simulatedCostBasis),
             conversionCount |-> Len(actualConversions)]

\* reduce((sum, a) => sum + a.valueInTarget, 0) from entry i on
RECURSIVE ValueSumFrom(_, _)
ValueSumFrom(entries, i) ==
    IF i > Len(entries) THEN RInt(0)
    ELSE RAdd(entries[i].valueInTarget, ValueSumFrom(entries, i + 1))

\* getCostBreakdown: rateJitters[i] is the outcome of Math.random in the
\* call of estimateExchangeRate for the rate of actual entry i, valueJitters[i]
\* the outcome in the second call, for its valueInTarget; a simulated entry
\* takes both from priceAtConversion
getCostBreakdown(actualConversions, simulatedConversions, targetCurrency, rateJitters, valueJitters) ==
    LET actualWithRates ==
            [i \in 1..Len(actualConversions) |->
                [timestamp |-> actualConversions[i].timestamp,
                 amount |-> actualConversions[i].amount,
                 rate |-> estimateExchangeRate(actualConversions[i].timestamp,
                                               targetCurrency, rateJitters[i]),
                 valueInTarget |->
                     RMul(RInt(actualConversions[i].amount),
                          RateValue(estimateExchangeRate(actualConversions[i].timestamp,
                                                         targetCurrency, valueJitters[i])))]]
        simulatedWithRates ==
            [i \in 1..Len(simulatedConversions) |->
                [timestamp |-> simulatedConversions[i].timestamp,
                 amount |-> simulatedConversions[i].amount,
                 rate |-> simulatedConversions[i].priceAtConversion,
                 valueInTarget |->
                     RMul(simulatedConversions[i].amount,
                          RateValue(simulatedConversions[i].priceAtConversion))]]
        totalActualValue ==
            ValueSumFrom(actualWithRates, 1)
        totalSimulatedValue ==
            ValueSumFrom(simulatedWithRates, 1)
    IN  [actualConversionsWithRates |-> actualWithRates,
         simulatedConversionsWithRates |-> simulatedWithRates,
         totalActualValue |-> totalActualValue,
         totalSimulatedValue |-> totalSimulatedValue,
         difference |-> RSub(totalSimulatedValue, totalActualValue)]

-----------------------------------------------------------------------------
(* Recommendation Synthesizer *)

\* the last minimum of frequency, consistency, timing (reduce with "<=")
getPrimaryIssue_LastLowest(components) ==
    LET afterConsistency ==
            IF components.consistencyScore <= components.frequencyScore
            THEN [type |-> "consistency", score |-> components.consistencyScore]
            ELSE [type |-> "frequency", score |-> components.frequencyScore]
        lowest ==
            IF components.timingScore <= afterConsistency.score
            THEN [type |-> "timing", score |-> components.timingScore]
            ELSE afterConsistency
    IN  IF lowest.score < 40 THEN lowest.type ELSE "none"

\* the first strict minimum of frequency, consistency, timing (reduce with "<")
getPrimaryIssue(components) ==
    LET afterConsistency ==
            IF components.consistencyScore < components.frequencyScore
            THEN [type |-> "consistency", score |-> components.consistencyScore]
            ELSE [type |-> "frequency", score |-> components.frequencyScore]
        lowest ==
            IF components.timingScore < afterConsistency.score
            THEN [type |-> "timing", score |-> components.timingScore]
            ELSE afterConsistency
    IN  IF lowest.score < 40 THEN lowest.type ELSE "none"

\* Intl.NumberFormat('en-US', {style: 'currency'}).format: the amount in
\* hundredths, halves rounded away from zero, with the currency code
FormatCurrency(amount, code) ==
    [cents |-> MathRound(RMul(amount, RInt(100))), currency |-> code]

\* a sentence is named by its rule; the sentences that quote a formatted
\* amount (and the conversion count) carry it
Sentence(name) == [sentence |-> name]

\* the praise rule with the bound of the mild-improvement rule, 5
AlreadyDisciplined_Below5(score, costType, costOrSavedAmount) ==
    score >= 80 /\ costType = "saved" /\ RLt(costOrSavedAmount, RInt(5))

\* score >= 80 && costType === 'saved' && costOrSavedAmount < 10
AlreadyDisciplined(score, costType, costOrSavedAmount) ==
    score >= 80 /\ costType = "saved" /\ RLt(costOrSavedAmount, RInt(10))

\* the guard from no conversion on
InsufficientData_Empty(conversionCount) == conversionCount < 1

\* conversionCount < 2
InsufficientData(conversionCount) == conversionCount < 2

\* the savings rule from 10 on, the bound of the praise rule
NotableSaving_Above10(costType, costOrSavedAmount) ==
    costType = "saved" /\ RLt(RInt(10), costOrSavedAmount)

\* costType === 'saved' && costOrSavedAmount > 5
NotableSaving(costType, costOrSavedAmount) ==
    costType = "saved" /\ RLt(RInt(5), costOrSavedAmount)

generateRecommendation(cost, scored) ==
    LET costOrSavedAmount == cost.costOrSavedAmount
        costType == cost.costType
        conversionCount == cost.conversionCount
        score == scored.score
        components == scored.components
        formattedAmount == FormatCurrency(costOrSavedAmount, cost.currency)
        primaryIssue == getPrimaryIssue(components)
    IN  IF InsufficientData(conversionCount) THEN Sentence("insufficient-data")
        ELSE IF AlreadyDisciplined(score, costType, costOrSavedAmount)
        THEN Sentence("already-disciplined")
        ELSE IF costType = "lost" /\ RLt(RInt(5), costOrSavedAmount)
        THEN IF primaryIssue = "frequency"
             THEN [sentence |-> "loss-frequency", amount |-> formattedAmount,
                   times |-> conversionCount]
             ELSE IF primaryIssue = "consistency"
             THEN [sentence |-> "loss-consistency", amount |-> formattedAmount]
             ELSE IF primaryIssue = "timing"
             THEN [sentence |-> "loss-timing", amount |-> formattedAmount]
             ELSE [sentence |-> "loss-generic", amount |-> formattedAmount]
        ELSE IF NotableSaving(costType, costOrSavedAmount)
        THEN [sentence |-> "saving", amount |-> formattedAmount]
        ELSE IF RLt(RInt(0), costOrSavedAmount) /\ RLe(costOrSavedAmount, RInt(5))
        THEN Sentence("minor-adjustments")
        ELSE IF RLt(RInt(0), costOrSavedAmount)
        THEN Sentence("working-well")
        ELSE Sentence("roughly-equivalent")

-----------------------------------------------------------------------------
(* Event Normalizer *)

\* JavaScript's null (TransferData.to) and a missing optional timestamp
null == "null"

Undefined == 0 - 1

toLowerCase(address) ==
    IF address \in {"0xAB", "0xAb", "0xab"} THEN "0xab"
    ELSE IF address \in {"0xCD", "0xcd"} THEN "0xcd"
    ELSE address

\* JavaScript truthiness of a string | null
Truthy(str) == str # null /\ str # ""

\* the addresses compared as written
Qualifies_CaseSensitive(transfer, wallet) ==
    transfer.from = wallet /\ Truthy(transfer.to)

\* transfer.from.toLowerCase() === walletAddress.toLowerCase() && transfer.to
Qualifies(transfer, wallet) ==
    toLowerCase(transfer.from) = toLowerCase(wallet) /\ Truthy(transfer.to)

\* the loop of parseConversionEvents; nows[i] is new Date() at transfer i
RECURSIVE CollectConversions(_, _, _, _)
CollectConversions(xfers, wallet, nows, i) ==
    IF i > Len(xfers) THEN <<>>
    ELSE
        LET transfer == xfers[i]
        IN  IF Qualifies(transfer, wallet)
            THEN <<[timestamp |-> IF transfer.timestamp # Undefined
                                  THEN transfer.timestamp ELSE nows[i],
                    amount |-> transfer.value,
                    token |-> transfer.asset,
                    toAddress |-> transfer.to,
                    hash |-> transfer.hash]>>
                 \o CollectConversions(xfers, wallet, nows, i + 1)
            ELSE CollectConversions(xfers, wallet, nows, i + 1)

parseConversionEvents(xfers, wallet, nows) ==
    SortByTimestamp(CollectConversions(xfers, wallet, nows, 1))

\* a timestamp string, as opposed to null
Iso(t) == [iso |-> t]

analyzeTransfers(xfers, wallet, nows) ==
    LET convs == parseConversionEvents(xfers, wallet, nows)
        totalConversions == Len(convs)
        totalVolume == SumSeq(Amounts(convs))
    IN  [conversions |-> convs,
         totalConversions |-> totalConversions,
         frequency |-> detectFrequencyPattern(convs),
         averageAmount |->
             IF totalConversions > 0 THEN Rat(totalVolume, totalConversions) ELSE RInt(0),
         totalVolume |-> totalVolume,
         averageDaysBetweenConversions |-> calculateAverageDaysBetween(convs),
         firstConversionDate |->
             IF Len(convs) > 0 THEN Iso(convs[1].timestamp) ELSE Null,
         lastConversionDate |->
             IF Len(convs) > 0 THEN Iso(convs[Len(convs)].timestamp) ELSE Null]

-----------------------------------------------------------------------------
(* Inputs *)

Days(d) == d * TicksPerDay

\* ascending timestamp lists of length n: a start and n - 1 gaps
RECURSIVE TimeLists(_, _, _)
TimeLists(starts, gaps, n) ==
    IF n = 0 THEN {<<>>}
    ELSE IF n = 1 THEN {<<t>> : t \in starts}
    ELSE {Append(ts, ts[n - 1] + g) : ts \in TimeLists(starts, gaps, n - 1), g \in gaps}

MakeEvents(ts, amounts) ==
    [i \in 1..Len(ts) |->
        [timestamp |-> ts[i], amount |-> amounts[i], token |-> "USDC",
         toAddress |-> "0xcd", hash |-> i]]

\* conversions is one of the ascending lists of at most maxLen events
ConversionsAmong(starts, gaps, amountChoices, maxLen) ==
    \E n \in 0..maxLen :
        \E ts \in TimeLists(starts, gaps, n), amounts \in [1..n -> amountChoices] :
            conversions = MakeEvents(ts, amounts)

\* Spec: 20 January at midday and 29 January; gaps of 16 days, one tick
\* short of 31 days, and 31 days
StageStarts == {At(1, 20, 1), At(1, 29, 0)}

StageGaps == {Days(16), Days(31) - 1, Days(31)}

StageAmounts == {10, 40}

Balances == {0 - 10, 0, 25, 200}

Currencies == {"USD", "EUR"}

\* SpecPattern: gaps of whole days, of nothing and of a single tick
PatternStarts == {At(1, 1, 0)}

PatternGaps == {0, 1} \cup {Days(d) : d \in {1, 3, 7, 14, 30, 40, 55}}

\* SpecScore
ScoreStarts == {At(1, 15, 0), At(4, 15, 0)}

ScoreGaps == {Days(d) : d \in {1, 28, 30, 33, 45}}

ScoreAmounts == {0, 10, 15, 25}

\* SpecCost
CostStarts == {At(1, 20, 1), At(4, 10, 0)}

CostGaps == {Days(16) - 1, Days(30)}

CostAmounts == {10, 40}

CostBalances == {0, 50, 1000}

\* SpecOrder: the 20th at midday; gaps of no time, 16 days and 31 days
OrderStarts == {At(1, 20, 1)}

OrderGaps == {0, Days(16), Days(31)}

OrderAmounts == {10, 40}

OrderBalances == {25}

\* SpecBreakdown
BreakdownBalances == {50}

CostCurrencies == {"USD", "eur"}

\* SpecRec: CostResults and ScoreResults
RecAmounts == {RInt(0), Rat(1, 2), RInt(5), Rat(15, 2), RInt(10), RInt(12)}

RecCounts == {0, 1, 2, 7}

CostResults ==
    {[costOrSavedAmount |-> a, currency |-> code, costType |-> t,
      actualCost |-> a, simulatedCost |-> RInt(0), conversionCount |-> c] :
        a \in RecAmounts, code \in Currencies, t \in {"saved", "lost"}, c \in RecCounts}

ScoreResults ==
    {[score |-> MathRound(WeightedSum(f, c, t)),
      explanation |-> generateExplanation(f, c, t),
      components |-> [frequencyScore |-> f, consistencyScore |-> c, timingScore |-> t]] :
        f \in {15, 30, 100}, c \in {10, 15, 50, 100}, t \in {10, 40, 100}}
    \cup {calculateDisciplineScore(<<>>)}

\* SpecNorm: raw transfers
TransferTimes == {Undefined, At(1, 10, 0), At(2, 10, 0)}

NowChoices == {At(3, 1, 0), At(3, 1, 1)}

TransferLists(n) ==
    {[i \in 1..n |->
         [hash |-> i, from |-> from[i], to |-> to[i], value |-> 10 * i,
          asset |-> "USDC", timestamp |-> time[i]]] :
        from \in [1..n -> {"0xab", "0xAB", "0xcd"}],
        to \in [1..n -> {null, "", "0xcd"}],
        time \in [1..n -> TransferTimes]}

\* the clock read at each transfer of one call: it never runs backwards
NowLists(n) ==
    {nows \in [1..n -> NowChoices] : \A i \in 1..(n - 1) : nows[i] <= nows[i + 1]}

JitterLists(n) == [1..n -> JitterChoices]

NotComputed == [pending |-> TRUE]

Blank ==
    /\ pc = "input"
    /\ balance = 0
    /\ currency = "USD"
    /\ analysis = NotComputed
    /\ frequency = "pending"
    /\ averageDays = NotComputed
    /\ simulation = NotComputed
    /\ actualRates = <<>>
    /\ costResult = NotComputed
    /\ scoreResult = NotComputed
    /\ recommendation = NotComputed
    /\ rateSamples = 0
    /\ history = <<>>
    /\ breakdown = NotComputed

-----------------------------------------------------------------------------
(* The stages, each applied to the inputs *)

DetectFrequencyPattern ==
    /\ pc = "input"
    /\ frequency' = detectFrequencyPattern(conversions)
    /\ pc' = "detected"
    /\ UNCHANGED <<breakdown, history, transfers, walletAddress, conversions, balance, currency, analysis,
                   averageDays, simulation, actualRates, costResult, scoreResult,
                   recommendation, rateSamples>>

CalculateAverageDaysBetween ==
    /\ pc = "input"
    /\ averageDays' = calculateAverageDaysBetween(conversions)
    /\ pc' = "averaged"
    /\ UNCHANGED <<breakdown, history, transfers, walletAddress, conversions, balance, currency, analysis,
                   frequency, simulation, actualRates, costResult, scoreResult,
                   recommendation, rateSamples>>

CalculateDisciplineScore ==
    /\ pc = "input"
    /\ scoreResult' = calculateDisciplineScore(conversions)
    /\ pc' = "scored"
    /\ UNCHANGED <<breakdown, history, transfers, walletAddress, conversions, balance, currency, analysis,
                   frequency, averageDays, simulation, actualRates, costResult,
                   recommendation, rateSamples>>

SimulateWith(balances, currencies) ==
    /\ pc = "input"
    /\ \E b \in balances, c \in currencies :
         \E jitters \in JitterLists(SimulatedCount(conversions, b)) :
            /\ balance' = b
            /\ currency' = c
            /\ simulation' = simulateDisciplineRule(conversions, b, c, jitters)
            /\ rateSamples' = Len(jitters)
    /\ pc' = "simulated"
    /\ UNCHANGED <<breakdown, history, transfers, walletAddress, conversions, analysis, frequency,
                   averageDays, actualRates, costResult, scoreResult, recommendation>>

SimulateDisciplineRule == SimulateWith(Balances, Currencies)

RECURSIVE CommonDenominatorFrom(_, _)
CommonDenominatorFrom(sims, i) ==
    IF i > Len(sims) THEN 1
    ELSE LET rest == CommonDenominatorFrom(sims, i + 1)
             den == sims[i].amount.den
         IN  (den \div Gcd(den, rest)) * rest

\* the simulated conversions as ConversionEvents: their timestamps and their
\* amounts, the amounts counted in units of one over their common denominator
\* (the scorer compares ratios of amounts only)
AsConversionEvents(sims) ==
    LET unit == CommonDenominatorFrom(sims, 1)
    IN  [i \in 1..Len(sims) |->
            [timestamp |-> sims[i].timestamp,
             amount |-> sims[i].amount.num * (unit \div sims[i].amount.den),
             token |-> "USDC", toAddress |-> "0xcd", hash |-> i]]

\* calculateDisciplineScore applied to the conversions of the simulation
ScoreSimulatedConversions ==
    /\ pc = "simulated"
    /\ scoreResult' =
          calculateDisciplineScore(AsConversionEvents(simulation.simulatedConversions))
    /\ pc' = "rescored"
    /\ UNCHANGED <<breakdown, history, transfers, walletAddress, conversions, balance, currency,
                   analysis, frequency, averageDays, simulation, actualRates, costResult,
                   recommendation, rateSamples>>

\* calculateCostSavings: the simulation, then one rate per actual event in
\* each of the two loops over the actual events (none for fewer than 2)
CalculateCostSavings ==
    /\ pc = "input"
    /\ \E b \in CostBalances, c \in CostCurrencies :
         \E simJitters \in JitterLists(SimulatedCount(conversions, b)),
            jitters \in JitterLists(ActualSampleCount(conversions)) :
            /\ balance' = b
            /\ currency' = c
            /\ simulation' = simulateDisciplineRule(conversions, b, c, simJitters)
            /\ actualRates' = ActualRates(conversions, c, jitters)
            /\ costResult' = calculateCostSavings(conversions, b, c, simJitters, jitters)
            /\ rateSamples' = Len(simJitters) + 2 * Len(jitters)
    /\ pc' = "costed"
    /\ UNCHANGED <<breakdown, history, transfers, walletAddress, conversions, analysis, frequency,
                   averageDays, scoreResult, recommendation>>

StageInit ==
    /\ Blank
    /\ transfers = <<>>
    /\ walletAddress = "0xab"
    /\ ConversionsAmong(StageStarts, StageGaps, StageAmounts, MaxEvents)

Next ==
    \/ DetectFrequencyPattern
    \/ CalculateAverageDaysBetween
    \/ CalculateDisciplineScore
    \/ SimulateDisciplineRule
    \/ ScoreSimulatedConversions

Spec == StageInit /\ [][Next]_vars

PatternInit ==
    /\ Blank
    /\ transfers = <<>>
    /\ walletAddress = "0xab"
    /\ ConversionsAmong(PatternStarts, PatternGaps, {10}, MaxPatternEvents)

PatternNext == DetectFrequencyPattern \/ CalculateAverageDaysBetween

SpecPattern == PatternInit /\ [][PatternNext]_vars

ScoreInit ==
    /\ Blank
    /\ transfers = <<>>
    /\ walletAddress = "0xab"
    /\ ConversionsAmong(ScoreStarts, ScoreGaps, ScoreAmounts, MaxScoreEvents)

ScoreNext == CalculateDisciplineScore

SpecScore == ScoreInit /\ [][ScoreNext]_vars

CostInit ==
    /\ Blank
    /\ transfers = <<>>
    /\ walletAddress = "0xab"
    /\ ConversionsAmong(CostStarts, CostGaps, CostAmounts, MaxCostEvents)

CostNext == CalculateCostSavings

SpecCost == CostInit /\ [][CostNext]_vars

GenerateRecommendation ==
    /\ pc = "input"
    /\ recommendation' = generateRecommendation(costResult, scoreResult)
    /\ pc' = "recommended"
    /\ UNCHANGED <<breakdown, history, transfers, walletAddress, conversions, balance, currency, analysis,
                   frequency, averageDays, simulation, actualRates, costResult,
                   scoreResult, rateSamples>>

RecInit ==
    /\ pc = "input"
    /\ transfers = <<>>
    /\ walletAddress = "0xab"
    /\ conversions = <<>>
    /\ balance = 0
    /\ currency = "USD"
    /\ analysis = NotComputed
    /\ frequency = "pending"
    /\ averageDays = NotComputed
    /\ simulation = NotComputed
    /\ actualRates = <<>>
    /\ costResult \in CostResults
    /\ scoreResult \in ScoreResults
    /\ recommendation = NotComputed
    /\ rateSamples = 0
    /\ history = <<>>
    /\ breakdown = NotComputed

RecNext == GenerateRecommendation

SpecRec == RecInit /\ [][RecNext]_vars

ParseConversionEvents ==
    /\ pc = "input"
    /\ \E nows \in NowLists(Len(transfers)) :
          conversions' = parseConversionEvents(transfers, walletAddress, nows)
    /\ pc' = "parsed"
    /\ UNCHANGED <<breakdown, history, transfers, walletAddress, balance, currency, analysis, frequency,
                   averageDays, simulation, actualRates, costResult, scoreResult,
                   recommendation, rateSamples>>

AnalyzeTransfers ==
    /\ pc = "input"
    /\ \E nows \in NowLists(Len(transfers)) :
          /\ analysis' = analyzeTransfers(transfers, walletAddress, nows)
          /\ conversions' = analysis'.conversions
    /\ pc' = "analyzed"
    /\ UNCHANGED <<breakdown, history, transfers, walletAddress, balance, currency, frequency,
                   averageDays, simulation, actualRates, costResult, scoreResult,
                   recommendation, rateSamples>>

\* the simulation whose conversions are itemized
SimulateForBreakdown == SimulateWith(BreakdownBalances, CostCurrencies)

\* getCostBreakdown of the events and of the conversions of their simulation
GetCostBreakdown ==
    /\ pc = "simulated"
    /\ \E rateJitters \in JitterLists(Len(conversions)),
          valueJitters \in JitterLists(Len(conversions)) :
          breakdown' = getCostBreakdown(conversions, simulation.simulatedConversions,
                                        currency, rateJitters, valueJitters)
    /\ rateSamples' = 2 * Len(conversions)
    /\ pc' = "itemized"
    /\ UNCHANGED <<history, transfers, walletAddress, conversions, balance, currency,
                   analysis, frequency, averageDays, simulation, actualRates, costResult,
                   scoreResult, recommendation>>

BreakdownInit ==
    /\ Blank
    /\ transfers = <<>>
    /\ walletAddress = "0xab"
    /\ ConversionsAmong(CostStarts, CostGaps, CostAmounts, MaxCostEvents)

BreakdownNext ==
    \/ SimulateForBreakdown
    \/ GetCostBreakdown

SpecBreakdown == BreakdownInit /\ [][BreakdownNext]_vars

\* SpecOrder: simulateDisciplineRule applied to event lists in every order
SimulateReordered == SimulateWith(OrderBalances, {"USD"})

OrderInit ==
    /\ Blank
    /\ transfers = <<>>
    /\ walletAddress = "0xab"
    /\ \E n \in 0..MaxOrderEvents :
          \E ts \in TimeLists(OrderStarts, OrderGaps, n),
             amounts \in [1..n -> OrderAmounts],
             p \in Permutations(1..n) :
             conversions = [i \in 1..n |-> MakeEvents(ts, amounts)[p[i]]]

OrderNext == SimulateReordered

SpecOrder == OrderInit /\ [][OrderNext]_vars

NormInit ==
    /\ Blank
    /\ walletAddress = "0xab"
    /\ conversions = <<>>
    /\ \E n \in 0..MaxTransfers : transfers \in TransferLists(n)

NormNext == ParseConversionEvents \/ AnalyzeTransfers

SpecNorm == NormInit /\ [][NormNext]_vars

-----------------------------------------------------------------------------
(* Properties of the stages *)

\* C1: for a list of 0 or 1 events each stage returns its insufficient-data
\* sentinel: detectFrequencyPattern returns 'insufficient-data',
\* calculateAverageDaysBetween returns null, simulateDisciplineRule returns an
\* empty simulatedConversions list, and calculateDisciplineScore returns score
\* 0 with the three component scores 0 and the insufficient-data explanation.
C1_InsufficientDataSentinels ==
    Len(conversions) < 2 =>
        /\ pc = "detected" => frequency = "insufficient-data"
        /\ pc = "averaged" => averageDays = Null
        /\ pc = "simulated" => simulation.simulatedConversions = <<>>
        /\ pc = "scored" =>
              /\ scoreResult.score = 0
              /\ scoreResult.components.frequencyScore = 0
              /\ scoreResult.components.consistencyScore = 0
              /\ scoreResult.components.timingScore = 0
              /\ scoreResult.explanation = InsufficientExplanation

C1_Witness ==
    /\ Len(conversions) = 1
    /\ pc = "scored"
    /\ scoreResult.score = 0
    /\ scoreResult.explanation = InsufficientExplanation

RECURSIVE RSumFrom(_, _)
RSumFrom(q, i) == IF i > Len(q) THEN RInt(0) ELSE RAdd(q[i], RSumFrom(q, i + 1))

\* the sum of a list of numbers
RSum(q) == RSumFrom(q, 1)

\* the consecutive gaps of a list of events, in days
GapsInDays(convs) ==
    [i \in 1..(Len(convs) - 1) |->
        Rat(convs[i + 1].timestamp - convs[i].timestamp, TicksPerDay)]

\* the classification of a non-empty list g of gaps in days by its mean and
\* its coefficient of variation cv = populationStdDev(g) / mean(g):
\* cv < 0.3 is variance < 0.09 * mean^2 for a positive mean (a zero mean
\* gives no cv below 0.3)
BandOfGaps(g) ==
    LET k == Len(g)
        avg == RMul(RSum(g), Rat(1, k))
        variance ==
            RMul(RSum([i \in 1..k |-> RMul(RSub(g[i], avg), RSub(g[i], avg))]), Rat(1, k))
        lowCv == avg.num > 0 /\ RLt(variance, RMul(Rat(9, 100), RMul(avg, avg)))
    IN  IF lowCv /\ RLe(avg, RInt(2)) THEN "daily"
        ELSE IF lowCv /\ RLt(RInt(2), avg) /\ RLe(avg, RInt(9)) THEN "weekly"
        ELSE IF lowCv /\ RLt(RInt(9), avg) /\ RLe(avg, RInt(16)) THEN "bi-weekly"
        ELSE IF lowCv /\ RLt(RInt(16), avg) /\ RLe(avg, RInt(35)) THEN "monthly"
        ELSE "irregular"

AllGapsAre(convs, days) ==
    \A i \in 1..(Len(convs) - 1) : convs[i + 1].timestamp - convs[i].timestamp = Days(days)

VariableGaps == <<Days(1), Days(40), Days(3), Days(55)>>

HasVariableGaps(convs) ==
    /\ Len(convs) = Len(VariableGaps) + 1
    /\ \A i \in 1..Len(VariableGaps) :
          convs[i + 1].timestamp - convs[i].timestamp = VariableGaps[i]

\* C2: for an ascending list of at least 2 events with gaps g in days,
\* avg = mean(g) and cv = populationStdDev(g) / avg, detectFrequencyPattern
\* returns 'daily' if cv < 0.3 and avg <= 2, 'weekly' if cv < 0.3 and
\* 2 < avg <= 9, 'bi-weekly' if cv < 0.3 and 9 < avg <= 16, 'monthly' if
\* cv < 0.3 and 16 < avg <= 35, and 'irregular' otherwise; equal gaps of 1, 7,
\* 14 and 30 days are daily, weekly, bi-weekly and monthly, and the gaps
\* 1, 40, 3, 55 are irregular.
C2_FrequencyBands ==
    (pc = "detected" /\ Len(conversions) >= 2 /\ IsAscending(conversions)) =>
        /\ frequency = BandOfGaps(GapsInDays(conversions))
        /\ AllGapsAre(conversions, 1) => frequency = "daily"
        /\ AllGapsAre(conversions, 7) => frequency = "weekly"
        /\ AllGapsAre(conversions, 14) => frequency = "bi-weekly"
        /\ AllGapsAre(conversions, 30) => frequency = "monthly"
        /\ HasVariableGaps(conversions) => frequency = "irregular"

C2_Witness ==
    /\ pc = "detected"
    /\ HasVariableGaps(conversions)
    /\ frequency = "irregular"

\* totalAmount * (1 - mean of the rates), 0 for no rates (totalAmount is 0 then)
CostBasis(totalAmount, rates) ==
    IF Len(rates) = 0 THEN RInt(0)
    ELSE RMul(totalAmount, RSub(RInt(1), Rat(SumSeq(rates), Len(rates) * RateScale)))

ActualCostBasis == CostBasis(RInt(SumSeq(Amounts(conversions))), actualRates)

SimulatedCostBasis ==
    CostBasis(simulation.totalSimulatedAmount,
              [i \in 1..Len(simulation.simulatedConversions) |->
                  simulation.simulatedConversions[i].priceAtConversion])

C4_WeightedScore ==
    (pc = "scored" /\ Len(conversions) >= 2) =>
        LET f == scoreResult.components.frequencyScore
            c == scoreResult.components.consistencyScore
            t == scoreResult.components.timingScore
        IN  /\ {scoreResult.score, f, c, t} \subseteq 0..100
            /\ scoreResult.score = (4 * f + 3 * c + 3 * t + 5) \div 10

\* a weighted sum that ends in .5 and is rounded up
C4_Witness ==
    /\ pc = "scored"
    /\ Len(conversions) >= 2
    /\ (4 * scoreResult.components.frequencyScore
        + 3 * scoreResult.components.consistencyScore
        + 3 * scoreResult.components.timingScore) % 10 = 5
    /\ scoreResult.score > 0

\* the number of the first rule the inputs match
FirstMatchingRule(cost, scored) ==
    LET amount == cost.costOrSavedAmount
    IN  IF cost.conversionCount < 2 THEN 1
        ELSE IF scored.score >= 80 /\ cost.costType = "saved" /\ RLt(amount, RInt(10)) THEN 2
        ELSE IF cost.costType = "lost" /\ RLt(RInt(5), amount) THEN 3
        ELSE IF cost.costType = "saved" /\ RLt(RInt(5), amount) THEN 4
        ELSE IF RLt(RInt(0), amount) /\ RLe(amount, RInt(5)) THEN 5
        ELSE IF RLt(RInt(0), amount) THEN 6
        ELSE 7

\* the rule a message belongs to
RuleOfMessage(message) ==
    CASE message.sentence = "insufficient-data" -> 1
      [] message.sentence = "already-disciplined" -> 2
      [] message.sentence \in {"loss-frequency", "loss-consistency", "loss-timing",
                               "loss-generic"} -> 3
      [] message.sentence = "saving" -> 4
      [] message.sentence = "minor-adjustments" -> 5
      [] message.sentence = "working-well" -> 6
      [] message.sentence = "roughly-equivalent" -> 7

\* the amount to the nearest hundredth
Hundredths(amount) == (200 * amount.num + amount.den) \div (2 * amount.den)

\* C5: generateRecommendation returns the message of the first rule that
\* matches, in the order (1) conversionCount < 2: insufficient data;
\* (2) score >= 80, saved and amount < 10: praise; (3) lost and amount > 5:
\* loss, naming the formatted amount; (4) saved and amount > 5: savings,
\* naming the formatted amount; (5) 0 < amount <= 5: mild improvement;
\* (6) amount > 0: generic positive; (7) otherwise: neutral. A saved amount
\* strictly between 5 and 10 with score >= 80 gets the praise of rule 2.
C5_FirstMatchingRule ==
    pc = "recommended" =>
        LET rule == FirstMatchingRule(costResult, scoreResult)
        IN  /\ RuleOfMessage(recommendation) = rule
            /\ rule \in {3, 4} =>
                  /\ recommendation.amount.cents = Hundredths(costResult.costOrSavedAmount)
                  /\ recommendation.amount.currency = costResult.currency
            /\ ( /\ costResult.conversionCount >= 2
                 /\ scoreResult.score >= 80
                 /\ costResult.costType = "saved"
                 /\ RLt(RInt(5), costResult.costOrSavedAmount)
                 /\ RLt(costResult.costOrSavedAmount, RInt(10)) )
               => recommendation.sentence = "already-disciplined"

C5_Witness ==
    /\ pc = "recommended"
    /\ costResult.conversionCount >= 2
    /\ scoreResult.score >= 80
    /\ costResult.costType = "saved"
    /\ RLt(RInt(5), costResult.costOrSavedAmount)
    /\ RLt(costResult.costOrSavedAmount, RInt(10))
    /\ recommendation.sentence = "already-disciplined"

EarliestEvent == CHOOSE t \in {conversions[i].timestamp : i \in 1..Len(conversions)} :
                    \A i \in 1..Len(conversions) : t <= conversions[i].timestamp

LatestEvent == CHOOSE t \in {conversions[i].timestamp : i \in 1..Len(conversions)} :
                  \A i \in 1..Len(conversions) : t >= conversions[i].timestamp

\* the month the simulation starts in: the month of the first event, or the
\* following one when the first event's day is later than targetDayOfMonth
StartMonth ==
    IF getDate(EarliestEvent) > simulation.targetDayOfMonth
    THEN MonthNumber(EarliestEvent) + 1
    ELSE MonthNumber(EarliestEvent)

\* targetDayOfMonth of the month numbered monthNumber, at the first event's
\* time of day
TargetDate(monthNumber) ==
    MakeDate(BaseYear + monthNumber \div 12, monthNumber % 12,
             simulation.targetDayOfMonth, TimeOfDay(EarliestEvent))

\* C6 as stated: for at least 2 events there is exactly one simulated
\* conversion for each calendar month from the start month through the month
\* of the last actual event inclusive, each dated on targetDayOfMonth.
C6_ThroughLastMonth ==
    (pc = "simulated" /\ Len(conversions) >= 2) =>
        LET sims == simulation.simulatedConversions
        IN  /\ Len(sims) = Max(0, MonthNumber(LatestEvent) - StartMonth + 1)
            /\ \A i \in 1..Len(sims) :
                  /\ MonthNumber(sims[i].timestamp) = StartMonth + i - 1
                  /\ getDate(sims[i].timestamp) = simulation.targetDayOfMonth

\* C6: for at least 2 events there is exactly one simulated conversion for
\* each calendar month from the start month on whose targetDayOfMonth, taken
\* at the first event's time of day, is not later than the last actual event:
\* the months are consecutive from the start month, each conversion is dated
\* on targetDayOfMonth, and the month after the last simulated one has its
\* date after the last event.
C6_WhileNotAfterLastEvent ==
    (pc = "simulated" /\ Len(conversions) >= 2) =>
        LET sims == simulation.simulatedConversions
        IN  /\ \A i \in 1..Len(sims) :
                  /\ sims[i].timestamp = TargetDate(StartMonth + i - 1)
                  /\ getDate(sims[i].timestamp) = simulation.targetDayOfMonth
                  /\ sims[i].timestamp <= LatestEvent
            /\ TargetDate(StartMonth + Len(sims)) > LatestEvent

\* the last event's month gets no simulated conversion
C6_Witness ==
    /\ pc = "simulated"
    /\ Len(conversions) >= 2
    /\ Len(simulation.simulatedConversions) >= 1
    /\ StartMonth + Len(simulation.simulatedConversions) - 1 < MonthNumber(LatestEvent)

EventDays == {getDate(conversions[i].timestamp) : i \in 1..Len(conversions)}

EventsOn(day) == Cardinality({i \in 1..Len(conversions) : getDate(conversions[i].timestamp) = day})

MostFrequentDays == {d \in EventDays : \A e \in EventDays : EventsOn(d) >= EventsOn(e)}

\* of the most frequent days, the one an event has first
FirstSeenMostFrequentDay ==
    LET first == CHOOSE i \in 1..Len(conversions) :
                    /\ getDate(conversions[i].timestamp) \in MostFrequentDays
                    /\ \A j \in 1..(i - 1) :
                          getDate(conversions[j].timestamp) \notin MostFrequentDays
    IN  getDate(conversions[first].timestamp)

\* of the most frequent days, the numerically smallest
SmallestMostFrequentDay == CHOOSE d \in MostFrequentDays : \A e \in MostFrequentDays : d <= e

ClampDay(day) == IF day > 28 THEN 28 ELSE IF day < 1 THEN 1 ELSE day

\* C7 as stated: for at least 2 events targetDayOfMonth is the most frequent
\* day-of-month of the events, of several tied days the one seen first in the
\* order of the events, clamped into 1..28.
C7_TieToFirstSeen ==
    (pc = "simulated" /\ Len(conversions) >= 2) =>
        simulation.targetDayOfMonth = ClampDay(FirstSeenMostFrequentDay)

\* C7: for at least 2 events targetDayOfMonth is the most frequent
\* day-of-month of the events, of several tied days the numerically smallest,
\* clamped into 1..28 (29, 30 and 31 become 28).
C7_TieToSmallestDay ==
    (pc = "simulated" /\ Len(conversions) >= 2) =>
        /\ simulation.targetDayOfMonth = ClampDay(SmallestMostFrequentDay)
        /\ simulation.targetDayOfMonth \in 1..28

\* a tie whose first-seen day is not the smallest
C7_Witness ==
    /\ pc = "simulated"
    /\ Len(conversions) >= 2
    /\ Cardinality(MostFrequentDays) >= 2
    /\ FirstSeenMostFrequentDay > SmallestMostFrequentDay
    /\ simulation.targetDayOfMonth = SmallestMostFrequentDay

\* C8: for at least 2 events and a balance > 0, conversionPercentage =
\* min(0.90, max(0.10, mean(actual amounts) / balance)), hence within
\* [0.10, 0.90]; for at least 2 events and a balance <= 0 it is 0.5.
C8_ConversionPercentage ==
    (pc = "simulated" /\ Len(conversions) >= 2) =>
        LET mean == Rat(SumSeq(Amounts(conversions)), Len(conversions))
            share == IF balance > 0 THEN RMul(mean, Rat(1, balance)) ELSE Rat(1, 2)
            clamped == IF RLt(share, Rat(1, 10)) THEN Rat(1, 10)
                       ELSE IF RLt(Rat(9, 10), share) THEN Rat(9, 10)
                       ELSE share
        IN  /\ balance > 0 =>
                  /\ simulation.conversionPercentage = clamped
                  /\ RLe(Rat(1, 10), simulation.conversionPercentage)
                  /\ RLe(simulation.conversionPercentage, Rat(9, 10))
            /\ balance <= 0 => simulation.conversionPercentage = Rat(1, 2)

\* a mean above 0.9 of the balance, clamped to 0.9
C8_Witness ==
    /\ pc = "simulated"
    /\ Len(conversions) >= 2
    /\ balance > 0
    /\ SumSeq(Amounts(conversions)) > Len(conversions) * balance
    /\ simulation.conversionPercentage = Rat(9, 10)

-----------------------------------------------------------------------------
(* Properties of the Event Normalizer *)

\* the events emitted for transfer i: hashes are unique among the transfers
EventsOf(i) == {j \in 1..Len(conversions) : conversions[j].hash = transfers[i].hash}

SameIgnoringCase(a, b) == toLowerCase(a) = toLowerCase(b)

\* C9 as stated: parseConversionEvents emits an event for a transfer if and
\* only if its from address equals the wallet address ignoring letter case and
\* its to field is non-null.
C9_EmitsIffToNonNull ==
    pc = "parsed" =>
        \A i \in 1..Len(transfers) :
            EventsOf(i) # {} <=>
                (SameIgnoringCase(transfers[i].from, walletAddress) /\ transfers[i].to # null)

\* C9: parseConversionEvents emits an event for a transfer if and only if its
\* from address equals the wallet address ignoring letter case and its to
\* field is neither null nor the empty string; every other transfer yields no
\* event, and a qualifying transfer yields exactly one event, with its value,
\* asset, recipient and hash.
C9_EmitsIffToNonEmpty ==
    pc = "parsed" =>
        \A i \in 1..Len(transfers) :
            IF /\ SameIgnoringCase(transfers[i].from, walletAddress)
               /\ transfers[i].to \notin {null, ""}
            THEN /\ Cardinality(EventsOf(i)) = 1
                 /\ \A j \in EventsOf(i) :
                       /\ conversions[j].amount = transfers[i].value
                       /\ conversions[j].token = transfers[i].asset
                       /\ conversions[j].toAddress = transfers[i].to
                       /\ conversions[j].hash = transfers[i].hash
            ELSE EventsOf(i) = {}

\* a transfer whose from differs from the wallet address in case only is emitted
C9_Witness ==
    /\ pc = "parsed"
    /\ \E i \in 1..Len(transfers) :
          /\ transfers[i].from # walletAddress
          /\ SameIgnoringCase(transfers[i].from, walletAddress)
          /\ transfers[i].to \notin {null, ""}
          /\ Cardinality(EventsOf(i)) = 1

\* C10: whatever the order of the raw transfers, the list parseConversionEvents
\* returns, and so conversions, firstConversionDate and lastConversionDate of
\* analyzeTransfers, is in non-decreasing timestamp order: firstConversionDate
\* is the earliest and lastConversionDate the latest event timestamp.
C10_SortedAscending ==
    /\ pc = "parsed" =>
          \A i \in 1..(Len(conversions) - 1) :
              conversions[i].timestamp <= conversions[i + 1].timestamp
    /\ pc = "analyzed" =>
          LET convs == analysis.conversions
          IN  /\ \A i \in 1..(Len(convs) - 1) : convs[i].timestamp <= convs[i + 1].timestamp
              /\ Len(convs) > 0 =>
                    /\ analysis.firstConversionDate.iso \in
                           {convs[i].timestamp : i \in 1..Len(convs)}
                    /\ analysis.lastConversionDate.iso \in
                           {convs[i].timestamp : i \in 1..Len(convs)}
                    /\ \A i \in 1..Len(convs) :
                          /\ analysis.firstConversionDate.iso <= convs[i].timestamp
                          /\ analysis.lastConversionDate.iso >= convs[i].timestamp

\* transfers delivered newest first come out oldest first
C10_Witness ==
    /\ pc = "analyzed"
    /\ Len(transfers) >= 2
    /\ transfers[1].timestamp # Undefined
    /\ transfers[2].timestamp # Undefined
    /\ transfers[1].timestamp > transfers[2].timestamp
    /\ Len(analysis.conversions) >= 2
    /\ analysis.firstConversionDate = Iso(transfers[2].timestamp)
    /\ analysis.lastConversionDate = Iso(transfers[1].timestamp)

-----------------------------------------------------------------------------
(* Properties of the scorer and of the calculator on particular inputs *)

SameAmounts(convs) == \A i, j \in 1..Len(convs) : convs[i].amount = convs[j].amount

SameDayOfMonth(convs) ==
    \A i, j \in 1..Len(convs) : getDate(convs[i].timestamp) = getDate(convs[j].timestamp)

\* at least 2 events, exactly 30 days apart, of one non-zero amount, on one
\* day-of-month
PerfectlyDisciplined(convs) ==
    /\ Len(convs) >= 2
    /\ AllGapsAre(convs, 30)
    /\ SameAmounts(convs)
    /\ convs[1].amount # 0
    /\ SameDayOfMonth(convs)

\* C11: for at least 2 events exactly 30 days apart, of identical non-zero
\* amounts, all on the same day-of-month, calculateDisciplineScore returns
\* frequencyScore = 100, consistencyScore = 100, timingScore = 100 and
\* score = 100.
C11_PerfectScore ==
    (pc = "scored" /\ PerfectlyDisciplined(conversions)) =>
        /\ scoreResult.components.frequencyScore = 100
        /\ scoreResult.components.consistencyScore = 100
        /\ scoreResult.components.timingScore = 100
        /\ scoreResult.score = 100

C11_Witness ==
    /\ pc = "scored"
    /\ PerfectlyDisciplined(conversions)
    /\ scoreResult.score = 100

\* two events of one amount, 30 days apart on one day-of-month <= 28, and a
\* balance of which the amount is between 10% and 90%
ReconstructsSchedule ==
    /\ Len(conversions) = 2
    /\ conversions[1].amount = conversions[2].amount
    /\ conversions[2].timestamp - conversions[1].timestamp = Days(30)
    /\ getDate(conversions[1].timestamp) = getDate(conversions[2].timestamp)
    /\ getDate(conversions[1].timestamp) <= 28
    /\ balance > 0
    /\ 10 * conversions[1].amount >= balance
    /\ 10 * conversions[1].amount <= 9 * balance

\* C12: for two actual conversions of equal amount A, 30 days apart on the
\* same day-of-month d <= 28 at the same time of day, and a balance with
\* A / balance within [0.10, 0.90], the simulated schedule is the same two
\* dates with amount A each, and for USD calculateCostSavings returns a
\* costOrSavedAmount of at most 2A * 0.001, whatever the random jitter.
C12_NearZeroWithinJitter ==
    (pc = "costed" /\ ReconstructsSchedule /\ toUpperCase(currency) = "USD") =>
        LET sims == simulation.simulatedConversions
            A == conversions[1].amount
        IN  /\ Len(sims) = 2
            /\ \A i \in 1..2 :
                  /\ sims[i].timestamp = conversions[i].timestamp
                  /\ sims[i].amount = RInt(A)
            /\ RLe(costResult.costOrSavedAmount, Rat(2 * A, 1000))

\* the jitters of the actual and of the simulated rates differ
C12_Witness ==
    /\ pc = "costed"
    /\ ReconstructsSchedule
    /\ toUpperCase(currency) = "USD"
    /\ costResult.costOrSavedAmount.num > 0
    /\ RLe(costResult.costOrSavedAmount, Rat(2 * conversions[1].amount, 1000))

\* C13: in every CostResult of calculateCostSavings, actualCost and
\* simulatedCost are the raw cost bases totalAmount * (1 - avgRate) the delta
\* was computed from, so that costOrSavedAmount = |simulatedCost - actualCost|
\* holds on the returned fields, also when one average rate is above the peg
\* of 1.00 and the other below it.
C13_RawCostBases ==
    pc = "costed" =>
        /\ Len(conversions) >= 2 =>
              /\ costResult.actualCost = ActualCostBasis
              /\ costResult.simulatedCost = SimulatedCostBasis
        /\ costResult.costOrSavedAmount =
              RAbs(RSub(costResult.simulatedCost, costResult.actualCost))

\* the bases have opposite signs, and the returned fields do not give the
\* returned amount
C13_Witness ==
    /\ pc = "costed"
    /\ Len(conversions) >= 2
    /\ ActualCostBasis.num < 0
    /\ SimulatedCostBasis.num > 0
    /\ costResult.costOrSavedAmount = RSub(SimulatedCostBasis, ActualCostBasis)
    /\ costResult.costOrSavedAmount #
          RAbs(RSub(costResult.simulatedCost, costResult.actualCost))

\* C14: for fewer than 2 actual events, whatever the balance and the
\* currency, calculateCostSavings samples no rate and returns
\* costOrSavedAmount = 0, costType = 'saved', actualCost = 0,
\* simulatedCost = 0, the given currency and conversionCount = the length of
\* the list.
C14_ZeroedSavedResult ==
    (pc = "costed" /\ Len(conversions) < 2) =>
        /\ rateSamples = 0
        /\ actualRates = <<>>
        /\ costResult.costOrSavedAmount = RInt(0)
        /\ costResult.costType = "saved"
        /\ costResult.actualCost = RInt(0)
        /\ costResult.simulatedCost = RInt(0)
        /\ costResult.currency = currency
        /\ costResult.conversionCount = Len(conversions)

C14_Witness ==
    /\ pc = "costed"
    /\ Len(conversions) = 1
    /\ balance > 0
    /\ rateSamples = 0
    /\ costResult.conversionCount = 1
    /\ costResult.costType = "saved"

\* C15 as stated: for fewer than 2 actual events simulateDisciplineRule
\* returns an empty simulation with conversionPercentage = 0,
\* targetDayOfMonth = 0, totalSimulatedAmount = 0 and
\* averageSimulatedAmount = 0.
C15_ZeroedDay ==
    (pc = "simulated" /\ Len(conversions) < 2) =>
        /\ simulation.simulatedConversions = <<>>
        /\ simulation.conversionPercentage = RInt(0)
        /\ simulation.targetDayOfMonth = 0
        /\ simulation.totalSimulatedAmount = RInt(0)
        /\ simulation.averageSimulatedAmount = RInt(0)

\* C15: for fewer than 2 actual events simulateDisciplineRule returns an
\* empty simulation with conversionPercentage = 0, totalSimulatedAmount = 0
\* and averageSimulatedAmount = 0, and with targetDayOfMonth = 1, the first
\* day of the month.
C15_ZeroedExceptDayOne ==
    (pc = "simulated" /\ Len(conversions) < 2) =>
        /\ simulation.simulatedConversions = <<>>
        /\ simulation.conversionPercentage = RInt(0)
        /\ simulation.targetDayOfMonth = 1
        /\ simulation.totalSimulatedAmount = RInt(0)
        /\ simulation.averageSimulatedAmount = RInt(0)

\* one event, not on the 1st, and a positive balance
C15_Witness ==
    /\ pc = "simulated"
    /\ Len(conversions) = 1
    /\ getDate(conversions[1].timestamp) # 1
    /\ balance > 0
    /\ simulation.targetDayOfMonth = 1
    /\ simulation.conversionPercentage = RInt(0)

-----------------------------------------------------------------------------
(* Sequences of calls on one set of arguments *)

MaxCalls == 2

\* two events passed newest first; two events of amount 0 at one time; two
\* events that leave the simulated series empty (25 January at midday and
\* 5 February at midnight: the 5th at midday is after the last event)
CallEventLists ==
    {MakeEvents(<<At(2, 20, 0), At(1, 20, 1)>>, <<10, 40>>),
     MakeEvents(<<At(1, 20, 1), At(1, 20, 1)>>, <<0, 0>>),
     MakeEvents(<<At(1, 25, 1), At(2, 5, 0)>>, <<10, 10>>)}

\* two transfers of the wallet, newest first; one without a timestamp; one
\* inbound transfer
CallTransferLists ==
    {<<[hash |-> 1, from |-> "0xAB", to |-> "0xcd", value |-> 10, asset |-> "USDC",
        timestamp |-> At(2, 10, 0)],
       [hash |-> 2, from |-> "0xab", to |-> "0xcd", value |-> 20, asset |-> "USDC",
        timestamp |-> At(1, 10, 0)]>>,
     <<[hash |-> 1, from |-> "0xab", to |-> "0xcd", value |-> 10, asset |-> "USDC",
        timestamp |-> Undefined]>>,
     <<[hash |-> 1, from |-> "0xcd", to |-> "0xab", value |-> 10, asset |-> "USDC",
        timestamp |-> At(1, 10, 0)]>>}

CallBalances == {25}

CallCostResults ==
    {[costOrSavedAmount |-> RInt(12), currency |-> "USD", costType |-> "lost",
      actualCost |-> RInt(12), simulatedCost |-> RInt(0), conversionCount |-> 2],
     [costOrSavedAmount |-> Rat(15, 2), currency |-> "EUR", costType |-> "saved",
      actualCost |-> RInt(0), simulatedCost |-> Rat(15, 2), conversionCount |-> 7]}

CallScoreResults ==
    {calculateDisciplineScore(list) : list \in CallEventLists}

\* one call: the function, the list (or the pair of results) passed to it,
\* the same argument as the call left it, and the value returned
Call(stage, args, left, result) ==
    [stage |-> stage, args |-> args, left |-> left, result |-> result]

CallInit ==
    /\ pc = "input"
    /\ transfers \in CallTransferLists
    /\ walletAddress = "0xab"
    /\ conversions \in CallEventLists
    /\ balance \in CallBalances
    /\ currency = "USD"
    /\ analysis = NotComputed
    /\ frequency = "pending"
    /\ averageDays = NotComputed
    /\ simulation = NotComputed
    /\ actualRates = <<>>
    /\ costResult = NotComputed
    /\ scoreResult = NotComputed
    /\ recommendation = NotComputed
    /\ rateSamples = 0
    /\ history = <<>>
    /\ breakdown = NotComputed

CallParseConversionEvents ==
    /\ Len(history) < MaxCalls
    /\ \E nows \in NowLists(Len(transfers)) :
          history' = Append(history,
              Call("parseConversionEvents", transfers, transfers,
                   parseConversionEvents(transfers, walletAddress, nows)))
    /\ pc' = "parsed"
    /\ UNCHANGED <<breakdown, transfers, walletAddress, conversions, balance, currency, analysis,
                   frequency, averageDays, simulation, actualRates, costResult,
                   scoreResult, recommendation, rateSamples>>

CallAnalyzeTransfers ==
    /\ Len(history) < MaxCalls
    /\ \E nows \in NowLists(Len(transfers)) :
          analysis' = analyzeTransfers(transfers, walletAddress, nows)
    /\ history' = Append(history, Call("analyzeTransfers", transfers, transfers, analysis'))
    /\ pc' = "analyzed"
    /\ UNCHANGED <<breakdown, transfers, walletAddress, conversions, balance, currency, frequency,
                   averageDays, simulation, actualRates, costResult, scoreResult,
                   recommendation, rateSamples>>

CallDetectFrequencyPattern ==
    /\ Len(history) < MaxCalls
    /\ frequency' = detectFrequencyPattern(conversions)
    /\ history' = Append(history,
          Call("detectFrequencyPattern", conversions, conversions, frequency'))
    /\ pc' = "detected"
    /\ UNCHANGED <<breakdown, transfers, walletAddress, conversions, balance, currency, analysis,
                   averageDays, simulation, actualRates, costResult, scoreResult,
                   recommendation, rateSamples>>

CallCalculateAverageDaysBetween ==
    /\ Len(history) < MaxCalls
    /\ averageDays' = calculateAverageDaysBetween(conversions)
    /\ history' = Append(history,
          Call("calculateAverageDaysBetween", conversions, conversions, averageDays'))
    /\ pc' = "averaged"
    /\ UNCHANGED <<breakdown, transfers, walletAddress, conversions, balance, currency, analysis,
                   frequency, simulation, actualRates, costResult, scoreResult,
                   recommendation, rateSamples>>

CallCalculateDisciplineScore ==
    /\ Len(history) < MaxCalls
    /\ scoreResult' = calculateDisciplineScore(conversions)
    /\ history' = Append(history,
          Call("calculateDisciplineScore", conversions, conversions, scoreResult'))
    /\ pc' = "scored"
    /\ UNCHANGED <<breakdown, transfers, walletAddress, conversions, balance, currency, analysis,
                   frequency, averageDays, simulation, actualRates, costResult,
                   recommendation, rateSamples>>

CallSimulateDisciplineRule ==
    /\ Len(history) < MaxCalls
    /\ \E jitters \in JitterLists(SimulatedCount(conversions, balance)) :
          /\ simulation' = simulateDisciplineRule(conversions, balance, currency, jitters)
          /\ rateSamples' = Len(jitters)
    /\ conversions' = ArgumentAfterSimulation(conversions)
    /\ history' = Append(history,
          Call("simulateDisciplineRule", conversions, conversions', simulation'))
    /\ pc' = "simulated"
    /\ UNCHANGED <<breakdown, transfers, walletAddress, balance, currency, analysis, frequency,
                   averageDays, actualRates, costResult, scoreResult, recommendation>>

CallCalculateCostSavings ==
    /\ Len(history) < MaxCalls
    /\ \E simJitters \in JitterLists(SimulatedCount(conversions, balance)),
          jitters \in JitterLists(ActualSampleCount(conversions)) :
          /\ actualRates' = ActualRates(conversions, currency, jitters)
          /\ costResult' =
                calculateCostSavings(conversions, balance, currency, simJitters, jitters)
          /\ rateSamples' = Len(simJitters) + 2 * Len(jitters)
    /\ conversions' = ArgumentAfterSimulation(conversions)
    /\ history' = Append(history,
          Call("calculateCostSavings", conversions, conversions', costResult'))
    /\ pc' = "costed"
    /\ UNCHANGED <<breakdown, transfers, walletAddress, balance, currency, analysis, frequency,
                   averageDays, simulation, scoreResult, recommendation>>

CallGenerateRecommendation ==
    /\ Len(history) < MaxCalls
    /\ \E cost \in CallCostResults, scored \in CallScoreResults :
          /\ recommendation' = generateRecommendation(cost, scored)
          /\ history' = Append(history,
                Call("generateRecommendation", <<cost, scored>>, <<cost, scored>>,
                     recommendation'))
    /\ pc' = "recommended"
    /\ UNCHANGED <<breakdown, transfers, walletAddress, conversions, balance, currency, analysis,
                   frequency, averageDays, simulation, actualRates, costResult,
                   scoreResult, rateSamples>>

CallNext ==
    \/ CallParseConversionEvents
    \/ CallAnalyzeTransfers
    \/ CallDetectFrequencyPattern
    \/ CallCalculateAverageDaysBetween
    \/ CallCalculateDisciplineScore
    \/ CallSimulateDisciplineRule
    \/ CallCalculateCostSavings
    \/ CallGenerateRecommendation

SpecCalls == CallInit /\ [][CallNext]_vars

-----------------------------------------------------------------------------
(* Properties of two invocations *)

\* C16: any two inputs of generateRecommendation that both have
\* conversionCount < 2 (in particular 1), however they differ in
\* costOrSavedAmount, costType, currency, score and component scores, get the
\* same recommendation, the insufficient-data sentence.
C16_SameSentenceBelowTwo ==
    (pc = "recommended" /\ costResult.conversionCount < 2) =>
        /\ recommendation = Sentence("insufficient-data")
        /\ \A otherCost \in CostResults, otherScore \in ScoreResults :
              otherCost.conversionCount < 2 =>
                  generateRecommendation(otherCost, otherScore) = recommendation

\* one conversion, a loss above 5 and a low score
C16_Witness ==
    /\ pc = "recommended"
    /\ costResult.conversionCount = 1
    /\ costResult.costType = "lost"
    /\ RLt(RInt(5), costResult.costOrSavedAmount)
    /\ scoreResult.score < 40
    /\ recommendation = Sentence("insufficient-data")

\* calls i and j, i before j, of one function on the same arguments
SameCall(i, j) ==
    /\ i < j
    /\ history[i].stage = history[j].stage
    /\ history[i].args = history[j].args

\* a simulation without the prices of its conversions
WithoutPrices(sim) ==
    [conversionPercentage |-> sim.conversionPercentage,
     targetDayOfMonth |-> sim.targetDayOfMonth,
     simulatedConversions |->
         [i \in 1..Len(sim.simulatedConversions) |->
             [timestamp |-> sim.simulatedConversions[i].timestamp,
              amount |-> sim.simulatedConversions[i].amount,
              convertedTo |-> sim.simulatedConversions[i].convertedTo]],
     totalSimulatedAmount |-> sim.totalSimulatedAmount,
     averageSimulatedAmount |-> sim.averageSimulatedAmount]

\* what a result has that no sampled rate enters
WithoutRates(stage, result) ==
    IF stage = "simulateDisciplineRule" THEN WithoutPrices(result)
    ELSE IF stage = "calculateCostSavings"
    THEN [currency |-> result.currency, conversionCount |-> result.conversionCount]
    ELSE result

DeterministicStages ==
    {"detectFrequencyPattern", "calculateAverageDaysBetween", "calculateDisciplineScore"}

NormalizerStages == {"parseConversionEvents", "analyzeTransfers"}

\* every transfer that qualifies as a conversion carries a timestamp
QualifyingAreTimestamped(xfers) ==
    \A i \in 1..Len(xfers) :
        Qualifies(xfers[i], walletAddress) => xfers[i].timestamp # Undefined

\* C17 as stated: the random jitter of the price model is the only source of
\* nondeterminism, so two invocations of any stage on the same arguments
\* return results that differ at most in what a sampled rate enters.
C17_JitterOnly ==
    \A i, j \in 1..Len(history) :
        SameCall(i, j) =>
            WithoutRates(history[i].stage, history[i].result)
                = WithoutRates(history[j].stage, history[j].result)

\* C17: two invocations of detectFrequencyPattern,
\* calculateAverageDaysBetween or calculateDisciplineScore on the same event
\* list return identical results; two invocations of simulateDisciplineRule
\* on the same inputs agree in conversionPercentage, targetDayOfMonth, the
\* number, timestamps and amounts of the simulated conversions and the
\* totals, and differ at most in priceAtConversion; two invocations of
\* parseConversionEvents or analyzeTransfers on the same transfers return
\* identical results when every qualifying transfer carries a timestamp.
C17_JitterAndClockOnly ==
    \A i, j \in 1..Len(history) :
        SameCall(i, j) =>
            /\ history[i].stage \in DeterministicStages =>
                  history[i].result = history[j].result
            /\ history[i].stage = "simulateDisciplineRule" =>
                  WithoutPrices(history[i].result) = WithoutPrices(history[j].result)
            /\ (history[i].stage \in NormalizerStages
                   /\ QualifyingAreTimestamped(history[i].args)) =>
                  history[i].result = history[j].result

\* two simulations of the same inputs that differ, in prices only
C17_Witness ==
    \E i, j \in 1..Len(history) :
        /\ SameCall(i, j)
        /\ history[i].stage = "simulateDisciplineRule"
        /\ Len(history[i].result.simulatedConversions) >= 1
        /\ history[i].result # history[j].result
        /\ WithoutPrices(history[i].result) = WithoutPrices(history[j].result)

-----------------------------------------------------------------------------
(* Numeric edge cases *)

\* a number that is neither not-a-number nor infinite
IsFinite(x) == x.den # 0

FrequencyPatterns ==
    {"daily", "weekly", "bi-weekly", "monthly", "irregular", "insufficient-data"}

AllAmountsZero(convs) == \A i \in 1..Len(convs) : convs[i].amount = 0

OneTimestamp(convs) == \A i, j \in 1..Len(convs) : convs[i].timestamp = convs[j].timestamp

\* C19: for non-negative amounts no stage returns not-a-number in a numeric
\* field: all-zero amounts give the consistency score its default 0; zero
\* qualifying transfers give averageAmount 0; events that share one timestamp
\* still get a FrequencyPattern; an empty simulated series for at least 2
\* actual events gives averageSimulatedAmount 0, and calculateCostSavings
\* returns finite costOrSavedAmount, actualCost and simulatedCost.
C19_NoNotANumber ==
    /\ scoreResult # NotComputed =>
          /\ {scoreResult.score, scoreResult.components.frequencyScore,
               scoreResult.components.consistencyScore,
               scoreResult.components.timingScore} \subseteq 0..100
          /\ AllAmountsZero(conversions) => scoreResult.components.consistencyScore = 0
    /\ analysis # NotComputed =>
          /\ IsFinite(analysis.averageAmount)
          /\ analysis.totalConversions = 0 => analysis.averageAmount = RInt(0)
          /\ analysis.averageDaysBetweenConversions # Null =>
                IsFinite(analysis.averageDaysBetweenConversions)
    /\ frequency # "pending" => frequency \in FrequencyPatterns
    /\ averageDays \notin {NotComputed, Null} => IsFinite(averageDays)
    /\ simulation # NotComputed =>
          /\ IsFinite(simulation.conversionPercentage)
          /\ IsFinite(simulation.totalSimulatedAmount)
          /\ IsFinite(simulation.averageSimulatedAmount)
          /\ \A i \in 1..Len(simulation.simulatedConversions) :
                IsFinite(simulation.simulatedConversions[i].amount)
          /\ simulation.simulatedConversions = <<>> =>
                simulation.averageSimulatedAmount = RInt(0)
    /\ costResult # NotComputed =>
          /\ IsFinite(costResult.costOrSavedAmount)
          /\ IsFinite(costResult.actualCost)
          /\ IsFinite(costResult.simulatedCost)

\* two events of amount 0 at one time, classified and scored
C19_Witness ==
    /\ Len(conversions) >= 2
    /\ AllAmountsZero(conversions)
    /\ OneTimestamp(conversions)
    /\ frequency = "irregular"
    /\ scoreResult # NotComputed
    /\ scoreResult.components.consistencyScore = 0

-----------------------------------------------------------------------------
(* Purity of the stages *)

EventListStages ==
    DeterministicStages \cup {"simulateDisciplineRule", "calculateCostSavings"}

\* the result of a call is one the function can return for the call's
\* arguments alone
ResultOfArgumentsAlone(call) ==
    IF call.stage = "parseConversionEvents"
    THEN \E nows \in NowLists(Len(call.args)) :
            call.result = parseConversionEvents(call.args, walletAddress, nows)
    ELSE IF call.stage = "analyzeTransfers"
    THEN \E nows \in NowLists(Len(call.args)) :
            call.result = analyzeTransfers(call.args, walletAddress, nows)
    ELSE IF call.stage = "detectFrequencyPattern"
    THEN call.result = detectFrequencyPattern(call.args)
    ELSE IF call.stage = "calculateAverageDaysBetween"
    THEN call.result = calculateAverageDaysBetween(call.args)
    ELSE IF call.stage = "calculateDisciplineScore"
    THEN call.result = calculateDisciplineScore(call.args)
    ELSE IF call.stage = "simulateDisciplineRule"
    THEN \E jitters \in JitterLists(SimulatedCount(call.args, balance)) :
            call.result = simulateDisciplineRule(call.args, balance, currency, jitters)
    ELSE IF call.stage = "calculateCostSavings"
    THEN \E simJitters \in JitterLists(SimulatedCount(call.args, balance)),
            jitters \in JitterLists(ActualSampleCount(call.args)) :
            call.result =
                calculateCostSavings(call.args, balance, currency, simJitters, jitters)
    ELSE call.result = generateRecommendation(call.args[1], call.args[2])

\* C20: every stage is a pure function of its arguments: after any sequence
\* of calls to parseConversionEvents, analyzeTransfers, detectFrequencyPattern,
\* calculateAverageDaysBetween, calculateDisciplineScore,
\* simulateDisciplineRule, calculateCostSavings and generateRecommendation,
\* each call left the list passed to it as it was, the caller's transfer list
\* and event list are still the ones passed to every call, in the same order
\* even when passed unsorted, and each result is one the function returns for
\* its arguments alone, whatever was called before.
C20_PureStages ==
    \A i \in 1..Len(history) :
        /\ history[i].left = history[i].args
        /\ history[i].stage \in EventListStages => history[i].args = conversions
        /\ history[i].stage \in NormalizerStages => history[i].args = transfers
        /\ ResultOfArgumentsAlone(history[i])

\* a simulation or a cost comparison of an unsorted event list, followed by
\* another call on the same list
C20_Witness ==
    \E i, j \in 1..Len(history) :
        /\ i < j
        /\ history[i].stage \in {"simulateDisciplineRule", "calculateCostSavings"}
        /\ history[i].args # SortByTimestamp(history[i].args)
        /\ history[i].left = history[i].args
        /\ history[j].stage \in EventListStages
        /\ history[j].args = history[i].args

-----------------------------------------------------------------------------
(* The simulated series *)

\* currentBalance * conversionPercentage of the simulation in the state
FixedAmount == RMul(RInt(balance), simulation.conversionPercentage)

-----------------------------------------------------------------------------
(* The bands of the component scores *)

\* the distance between two days of the month, around the end of the month
DayDistance(a, b) == Min(Abs(a - b), 31 - Abs(a - b))

\* the events within 3 days of a day of the month
EventsNear(day) ==
    {i \in 1..Len(conversions) : DayDistance(getDate(conversions[i].timestamp), day) <= 3}

\* the events within 3 days of the most common day of the month
EventsNearMostCommonDay ==
    LET mostCommonDay == SmallestMostFrequentDay
    IN  EventsNear(mostCommonDay)

\* the band of the fraction near / count
TimingBand(near, count) ==
    IF 10 * near >= 9 * count THEN 100
    ELSE IF 4 * near >= 3 * count THEN 80
    ELSE IF 5 * near >= 3 * count THEN 60
    ELSE IF 5 * near >= 2 * count THEN 40
    ELSE IF 4 * near >= count THEN 20
    ELSE 10

RECURSIVE SquaredDeviationsFrom(_, _, _)
SquaredDeviationsFrom(amounts, total, i) ==
    IF i > Len(amounts) THEN 0
    ELSE (Len(amounts) * amounts[i] - total) * (Len(amounts) * amounts[i] - total)
         + SquaredDeviationsFrom(amounts, total, i + 1)

\* populationStdDev(amounts) / mean(amounts) < p / q for a positive mean:
\* the variance is the sum of the squared distances over n, so cv^2 is
\* SquaredDeviations / (n * total^2)
CoefficientBelow(amounts, p, q) ==
    LET total == SumSeq(amounts)
    IN  q * q * SquaredDeviationsFrom(amounts, total, 1)
            < p * p * Len(amounts) * total * total

ConsistencyBand(amounts) ==
    IF CoefficientBelow(amounts, 10, 100) THEN 100
    ELSE IF CoefficientBelow(amounts, 25, 100) THEN 75
    ELSE IF CoefficientBelow(amounts, 40, 100) THEN 50
    ELSE IF CoefficientBelow(amounts, 60, 100) THEN 25
    ELSE 10

MonthlyDeviation(convs) ==
    LET g == GapsInDays(convs)
    IN  RAbs(RSub(RMul(RSum(g), Rat(1, Len(g))), RInt(30)))

FrequencyBand(dev) ==
    IF RLe(dev, RInt(2)) THEN 100
    ELSE IF RLe(dev, RInt(5)) THEN 85
    ELSE IF RLe(dev, RInt(10)) THEN 70
    ELSE IF RLe(dev, RInt(15)) THEN 50
    ELSE IF RLe(dev, RInt(20)) THEN 30
    ELSE 15

-----------------------------------------------------------------------------
(* The branches of the recommendation *)

\* generateRecommendation took the loss branch: at least 2 conversions, rule 2
\* not matched, a loss above 5
LossBranch ==
    /\ pc = "recommended"
    /\ costResult.conversionCount >= 2
    /\ ~( /\ scoreResult.score >= 80
          /\ costResult.costType = "saved"
          /\ RLt(costResult.costOrSavedAmount, RInt(10)) )
    /\ costResult.costType = "lost"
    /\ RLt(RInt(5), costResult.costOrSavedAmount)

LowestComponentScore ==
    Min(scoreResult.components.frequencyScore,
        Min(scoreResult.components.consistencyScore, scoreResult.components.timingScore))

\* the sentence naming the component with the lowest score, frequency before
\* consistency before timing
SentenceOfLowestComponent ==
    IF scoreResult.components.frequencyScore = LowestComponentScore THEN "loss-frequency"
    ELSE IF scoreResult.components.consistencyScore = LowestComponentScore
    THEN "loss-consistency"
    ELSE "loss-timing"

\* C25: in the loss branch of generateRecommendation (conversionCount >= 2,
\* rule 2 not matched, costType lost, costOrSavedAmount > 5) the targeted
\* message names the component with the lowest score among frequency,
\* consistency and timing when that score is below 40, on equal lowest scores
\* frequency before consistency and consistency before timing; the generic
\* loss message is returned exactly when all three scores are at least 40.
C25_LowestComponentNamed ==
    LossBranch =>
        /\ LowestComponentScore < 40 =>
              recommendation.sentence = SentenceOfLowestComponent
        /\ recommendation.sentence = "loss-generic"
              <=> /\ scoreResult.components.frequencyScore >= 40
                  /\ scoreResult.components.consistencyScore >= 40
                  /\ scoreResult.components.timingScore >= 40

\* a loss with frequency and consistency equally lowest, below 40 and below
\* timing: frequency is named
C25_Witness ==
    /\ LossBranch
    /\ scoreResult.components.frequencyScore = scoreResult.components.consistencyScore
    /\ scoreResult.components.frequencyScore < scoreResult.components.timingScore
    /\ scoreResult.components.frequencyScore < 40
    /\ recommendation.sentence = "loss-frequency"

-----------------------------------------------------------------------------
(* The dates of the simulated series *)

\* C26: for every list of at least 2 events, every simulated conversion's
\* timestamp t satisfies first <= t <= last for the earliest and the latest
\* actual event timestamps, every t falls on day-of-month targetDayOfMonth,
\* and the simulated timestamps are strictly increasing with consecutive
\* ones in consecutive calendar months, none skipped and none duplicated.
C26_DatesWithinHistory ==
    (pc = "simulated" /\ Len(conversions) >= 2) =>
        LET sims == simulation.simulatedConversions
        IN  /\ \A i \in 1..Len(sims) :
                  /\ EarliestEvent <= sims[i].timestamp
                  /\ sims[i].timestamp <= LatestEvent
                  /\ getDate(sims[i].timestamp) = simulation.targetDayOfMonth
            /\ \A i \in 1..(Len(sims) - 1) :
                  /\ sims[i].timestamp < sims[i + 1].timestamp
                  /\ MonthNumber(sims[i + 1].timestamp) = MonthNumber(sims[i].timestamp) + 1

\* a series of at least 2 dates for a first event that is later in its month
\* than the target day
C26_Witness ==
    /\ pc = "simulated"
    /\ Len(conversions) >= 2
    /\ Len(simulation.simulatedConversions) >= 2
    /\ simulation.targetDayOfMonth < getDate(EarliestEvent)
    /\ MonthNumber(simulation.simulatedConversions[1].timestamp)
          = MonthNumber(EarliestEvent) + 1

\* C27: for every CostResult whose costType is 'saved' or 'lost' and every
\* ScoreResult, generateRecommendation never returns the generic positive
\* message of rule 6 ('Your disciplined approach is working well...'): an
\* amount above 0 that rule 5 leaves is above 5, and rule 3 or rule 4 has
\* taken it, so rules 1 to 5 and the neutral rule 7 cover every input.
C27_GenericPositiveUnreachable ==
    (pc = "recommended" /\ costResult.costType \in {"saved", "lost"}) =>
        /\ recommendation.sentence # "working-well"
        /\ RuleOfMessage(recommendation) \in {1, 2, 3, 4, 5, 7}

\* a saving above 5 with a score below 80, past rules 1 to 3: rule 4 takes it
C27_Witness ==
    /\ pc = "recommended"
    /\ costResult.costType = "saved"
    /\ costResult.conversionCount >= 2
    /\ scoreResult.score < 80
    /\ RLt(RInt(5), costResult.costOrSavedAmount)
    /\ RLt(costResult.costOrSavedAmount, RInt(10))
    /\ recommendation.sentence = "saving"

-----------------------------------------------------------------------------
(* The score of 0 *)

-----------------------------------------------------------------------------
(* The cost breakdown *)

\* amount * rate of one entry of the breakdown: the amount of an actual
\* entry is a whole number, that of a simulated entry a fraction
ActualAtReportedRate(entry) == RMul(RInt(entry.amount), RateValue(entry.rate))

SimulatedAtReportedRate(entry) == RMul(entry.amount, RateValue(entry.rate))

\* C29: in the result of getCostBreakdown every entry, actual and simulated,
\* has valueInTarget = amount * rate for the rate reported in that entry, so
\* totalActualValue is the sum of amount * rate over the reported actual
\* entries and difference = totalSimulatedValue - totalActualValue agrees
\* with the rates shown.
C29_ValueAtReportedRate ==
    pc = "itemized" =>
        LET actual == breakdown.actualConversionsWithRates
            simulated == breakdown.simulatedConversionsWithRates
        IN  /\ \A i \in 1..Len(actual) :
                  actual[i].valueInTarget = ActualAtReportedRate(actual[i])
            /\ \A i \in 1..Len(simulated) :
                  simulated[i].valueInTarget = SimulatedAtReportedRate(simulated[i])
            /\ breakdown.totalActualValue
                  = RSum([i \in 1..Len(actual) |-> ActualAtReportedRate(actual[i])])
            /\ breakdown.difference
                  = RSub(RSum([i \in 1..Len(simulated) |->
                                  SimulatedAtReportedRate(simulated[i])]),
                         RSum([i \in 1..Len(actual) |-> ActualAtReportedRate(actual[i])]))

\* a breakdown with an actual entry whose value is not its amount at its
\* reported rate, every simulated entry being consistent
C29_Witness ==
    /\ pc = "itemized"
    /\ Len(breakdown.simulatedConversionsWithRates) >= 1
    /\ \A i \in 1..Len(breakdown.simulatedConversionsWithRates) :
          breakdown.simulatedConversionsWithRates[i].valueInTarget
              = SimulatedAtReportedRate(breakdown.simulatedConversionsWithRates[i])
    /\ \E i \in 1..Len(breakdown.actualConversionsWithRates) :
          breakdown.actualConversionsWithRates[i].valueInTarget
              # ActualAtReportedRate(breakdown.actualConversionsWithRates[i])

-----------------------------------------------------------------------------
(* The order of the events *)

\* the events of convs from the oldest to the newest, one of the orders of
\* the list
OldestFirst(convs) == SortByTimestamp(convs)

\* b has the events of a, each as often as a has it
IsReordering(a, b) ==
    /\ Len(a) = Len(b)
    /\ \A i \in 1..Len(a) :
          Cardinality({j \in 1..Len(a) : a[j] = a[i]})
              = Cardinality({j \in 1..Len(b) : b[j] = a[i]})

\* a simulation of convs with the balance and currency of the state
SimulationOf(convs) ==
    simulateDisciplineRule(convs, balance, currency,
        [i \in 1..SimulatedCount(convs, balance) |-> JitterMin])

====
